---- MODULE Spec2Model ----
(***************************************************************************)
(* A model of the sqsh streaming byte-codec library: the Rank Table        *)
(* (stats/probtable.rs), the run-length codecs (processors/rle), the       *)
(* checksums and Duplicate (processors), and the Stream driver (core).     *)
(* Processors are pure operators on their state record; each              *)
(* specification drives them through actions.                              *)
(***************************************************************************)
EXTENDS Integers, Sequences, FiniteSets, TLC

VARIABLES
    build,      \* "debug" (overflow checks on) or "release" (wrapping)
    table,      \* ProbTable under test: [hm, sorted_vec]
    inserted,   \* history: the values handed to ProbTable::insert, in order
    lastInsert, \* history: the table before the last insert, the value, the returned rank
    enc,        \* the encoder under test (its state record)
    dec,        \* the decoder under test
    original,   \* the bytes handed to the encoder so far, over all process calls
    cuts,       \* history: the length of the chunk of each encoder process call
    encSink,    \* the encoder's sink: everything process and finish appended
    feeds,      \* history: the length of the chunk of each decoder process call
    decSink,    \* the decoder's sink
    phase,      \* "encoding", "decoding", "done", or "panicked"
    driver,     \* which Stream::consume runs: "core/stream.rs" or "core.rs"
    reader,     \* Stream.reader: [source, pos], pos bytes consumed so far
    writer,     \* Stream.writer: [bytes, flushed], the sink and what was flushed
    processor,  \* Stream.processor: [kind, p]
    buffer,     \* Stream.buffer, the output accumulator
    consumed,   \* consume's local `consumed`
    filled,     \* consume's local `data`, the chunk fill_buf returned
    pc,         \* consume's position
    result,     \* what consume returned: None, <<"Ok", n>> or <<"Err", where>>
    log         \* history: the calls consume made, in order, as [op, arg]

probVars == <<table, inserted, lastInsert>>
codecVars == <<enc, dec, original, cuts, encSink, feeds, decSink, phase>>
streamVars == <<driver, reader, writer, processor, buffer, consumed, filled, pc, result, log>>
vars == <<build, table, inserted, lastInsert,
          enc, dec, original, cuts, encSink, feeds, decSink, phase,
          driver, reader, writer, processor, buffer, consumed, filled, pc, result, log>>

\* Option<T>: None, or Some(v) written as <<v>>
None == <<>>
Some(v) == <<v>>
IsSome(o) == o # None
Unwrap(o) == o[1]

Builds == {"debug", "release"}

Min(a, b) == IF a < b THEN a ELSE b
Max(a, b) == IF a > b THEN a ELSE b

(***************************************************************************)
(* stats/probtable.rs: ProbTable<T>.  A node (Count<T>) is shared by the   *)
(* hash map and the sorted vector (Rc<RefCell<..>>); a node is identified  *)
(* by its val, hm maps val to the node's count and rank, and sorted_vec is *)
(* the vector of nodes.  Ranks are 0-based as in the code; TLA+ sequences  *)
(* are 1-based, so the node at rank r is sorted_vec[r + 1].                *)
(***************************************************************************)
ProbTableNew == [hm |-> <<>>, sorted_vec |-> <<>>]

NodeAt(t, ix) == t.hm[t.sorted_vec[ix + 1]]

\* fn swap(a, b): both nodes' ranks are rewritten, then the vector entries swapped
MutSwapKeepsRanks(t, a, b) ==
    [t EXCEPT !.sorted_vec = [@ EXCEPT ![a + 1] = t.sorted_vec[b + 1],
                                       ![b + 1] = t.sorted_vec[a + 1]]]

Swap(t, a, b) ==
    LET va == t.sorted_vec[a + 1]
        vb == t.sorted_vec[b + 1]
        hm1 == [t.hm EXCEPT ![va].rank = b]
        hm2 == [hm1 EXCEPT ![vb].rank = a]
    IN  [hm |-> hm2,
         sorted_vec |-> [t.sorted_vec EXCEPT ![a + 1] = vb, ![b + 1] = va]]

\* the scan of renormalize: the first index i in 0..ix whose count is below ref_count
MutScanLowerOrEqual(t, ix) ==
    LET ref_count == NodeAt(t, ix).count
        lower == {i \in 0..ix : NodeAt(t, i).count <= ref_count}
    IN  IF lower = {} THEN ix ELSE CHOOSE i \in lower : \A j \in lower : i <= j

MutScanNearest(t, ix) ==
    LET ref_count == NodeAt(t, ix).count
        lower == {i \in 0..ix : NodeAt(t, i).count < ref_count}
    IN  IF lower = {} THEN ix ELSE CHOOSE i \in lower : \A j \in lower : i >= j

RenormalizeScan(t, ix) ==
    LET ref_count == NodeAt(t, ix).count
        lower == {i \in 0..ix : NodeAt(t, i).count < ref_count}
    IN  IF lower = {} THEN ix ELSE CHOOSE i \in lower : \A j \in lower : i <= j

\* fn renormalize(ix) -> r
MutRenormalizeReturnsStart(t, ix) ==
    LET r == RenormalizeScan(t, ix)
    IN  [t |-> Swap(t, r, ix), r |-> ix]

Renormalize(t, ix) ==
    LET r == RenormalizeScan(t, ix)
    IN  [t |-> Swap(t, r, ix), r |-> r]

\* fn insert(val) -> rank
MutInsertKeepsCount(t, val) ==
    IF val \in DOMAIN t.hm
    THEN Renormalize(t, t.hm[val].rank)
    ELSE LET rank == Len(t.sorted_vec)
             node == [count |-> 1, rank |-> rank]
             t1 == [hm |-> (val :> node) @@ t.hm,
                    sorted_vec |-> Append(t.sorted_vec, val)]
         IN  Renormalize(t1, rank)

Insert(t, val) ==
    IF val \in DOMAIN t.hm
    THEN LET t1 == [t EXCEPT !.hm[val].count = @ + 1]
             ix == t1.hm[val].rank
         IN  Renormalize(t1, ix)
    ELSE LET rank == Len(t.sorted_vec)
             node == [count |-> 1, rank |-> rank]
             t1 == [hm |-> (val :> node) @@ t.hm,
                    sorted_vec |-> Append(t.sorted_vec, val)]
         IN  Renormalize(t1, rank)

\* fn feed(vals): insert every value in order.  vals[lo..hi] is inserted left
\* half first; the table of the left half is computed (its length is read)
\* before the right half is inserted into it, which keeps the evaluation of a
\* long feed shallow.
RECURSIVE FeedRange(_, _, _, _)
FeedRange(t, vals, lo, hi) ==
    IF lo > hi THEN t
    ELSE IF lo = hi THEN Insert(t, vals[lo]).t
    ELSE LET mid == (lo + hi) \div 2
             left == FeedRange(t, vals, lo, mid)
         IN  IF Len(left.sorted_vec) >= 0
             THEN FeedRange(left, vals, mid + 1, hi)
             ELSE left

Feed(t, vals) == FeedRange(t, vals, 1, Len(vals))

\* fn rank(val) -> Option<usize>
Rank(t, val) == IF val \in DOMAIN t.hm THEN Some(t.hm[val].rank) ELSE None

\* fn position(pos) -> Option<T>
Position(t, pos) ==
    IF pos < Len(t.sorted_vec) THEN Some(t.sorted_vec[pos + 1]) ELSE None

\* fn count(val) -> Option<usize>
Count(t, val) == IF val \in DOMAIN t.hm THEN Some(t.hm[val].count) ELSE None

\* fn members() -> usize
Members(t) == Len(t.sorted_vec)

\* fn is_coherent(): every predecessor's rank is its index and counts do not ascend
IsCoherent(t) ==
    \A ix \in 0..(Len(t.sorted_vec) - 2) :
        /\ NodeAt(t, ix).rank = ix
        /\ NodeAt(t, ix).count >= NodeAt(t, ix + 1).count

(***************************************************************************)
(* Bytes and panics.  A processor call returns [p, sink, panic]: the new   *)
(* processor state, the sink (Vec<u8>) it appended to, and whether the     *)
(* call panicked (a failed assert!, an unwrap of None, or an arithmetic    *)
(* overflow in a build with overflow checks).  u8 arithmetic wraps at 2^8  *)
(* in release builds and panics in debug builds.                           *)
(***************************************************************************)
U8Mod == 256
U8Max == 255
Byte == 0..U8Max

Repeat(x, n) == [i \in 1..n |-> x]

OverflowPanics(overflow) == overflow /\ build = "debug"

Ret(p, sink, panic) == [p |-> p, sink |-> sink, panic |-> panic]

(***************************************************************************)
(* processors/rle/classic.rs                                               *)
(***************************************************************************)
CLASSIC_RLE_THRESHOLD == 2

\* RleClassicEncoder::with_threshold / RleClassicDecoder::with_threshold
ClassicNew(max_threshold) ==
    [repetition |-> 0, max_threshold |-> max_threshold, last_symbol |-> None]

\* reset(): repetition and last_symbol, the threshold stays
ClassicReset(p) == [p EXCEPT !.repetition = 0, !.last_symbol = None]

\* new_symbol(byte)
ClassicNewSymbol(p, byte) == [p EXCEPT !.repetition = 1, !.last_symbol = Some(byte)]

\* RleClassicEncoder::write_to_sink without the assertion: the count is cast
MutWriteWrapsCount(p, sink) ==
    LET last_symbol == Unwrap(p.last_symbol)
    IN  IF p.repetition >= p.max_threshold
        THEN Ret(p, sink \o Repeat(last_symbol, p.max_threshold)
                         \o <<(p.repetition - p.max_threshold) % U8Mod>>, FALSE)
        ELSE Ret(p, sink \o Repeat(last_symbol, p.repetition), FALSE)

\* RleClassicEncoder::write_to_sink with the run length as count
MutWriteCountIsLength(p, sink) ==
    LET last_symbol == Unwrap(p.last_symbol)
    IN  IF p.repetition >= p.max_threshold
        THEN Ret(p, sink \o Repeat(last_symbol, p.max_threshold) \o <<p.repetition>>, FALSE)
        ELSE Ret(p, sink \o Repeat(last_symbol, p.repetition), FALSE)

ClassicWriteToSink(p, sink) ==
    LET last_symbol == Unwrap(p.last_symbol)
    IN  IF p.repetition >= p.max_threshold
        THEN LET diff == p.repetition - p.max_threshold
             IN  IF diff > U8Max
                 THEN Ret(p, sink, TRUE)
                 ELSE Ret(p, sink \o Repeat(last_symbol, p.max_threshold) \o <<diff>>, FALSE)
        ELSE Ret(p, sink \o Repeat(last_symbol, p.repetition), FALSE)

\* RleClassicEncoder::process_byte
ClassicEncProcessByte(p, byte, sink) ==
    IF IsSome(p.last_symbol)
    THEN IF Unwrap(p.last_symbol) = byte
         THEN Ret([p EXCEPT !.repetition = @ + 1], sink, FALSE)
         ELSE LET w == ClassicWriteToSink(p, sink)
              IN  IF w.panic THEN w ELSE Ret(ClassicNewSymbol(w.p, byte), w.sink, FALSE)
    ELSE Ret(ClassicNewSymbol(p, byte), sink, FALSE)

\* RleClassicEncoder::finish_byte
ClassicEncFinishByte(p, sink) ==
    IF IsSome(p.last_symbol)
    THEN LET w == ClassicWriteToSink(p, sink)
         IN  IF w.panic THEN w ELSE Ret(ClassicReset(w.p), w.sink, FALSE)
    ELSE Ret(p, sink, FALSE)

\* RleClassicDecoder::process_byte
MutDecCountIsSymbol(p, byte, sink) ==
    IF p.last_symbol = None
    THEN Ret([p EXCEPT !.last_symbol = Some(byte), !.repetition = 1],
             Append(sink, byte), FALSE)
    ELSE IF byte = Unwrap(p.last_symbol)
         THEN Ret([p EXCEPT !.repetition = @ + 1], Append(sink, byte), FALSE)
         ELSE Ret([p EXCEPT !.repetition = 1, !.last_symbol = Some(byte)],
                  Append(sink, byte), FALSE)

ClassicDecProcessByte(p, byte, sink) ==
    IF p.last_symbol = None
    THEN Ret([p EXCEPT !.last_symbol = Some(byte), !.repetition = 1],
             Append(sink, byte), FALSE)
    ELSE LET ls == Unwrap(p.last_symbol)
         IN  IF byte = ls
             THEN Ret([p EXCEPT !.repetition = @ + 1], Append(sink, byte), FALSE)
             ELSE IF p.repetition = p.max_threshold
                  THEN Ret(ClassicReset(p), sink \o Repeat(ls, byte), FALSE)
                  ELSE Ret([p EXCEPT !.repetition = 1, !.last_symbol = Some(byte)],
                           Append(sink, byte), FALSE)

\* RleClassicDecoder::finish_byte
ClassicDecFinishByte(p, sink) == Ret(ClassicReset(p), sink, FALSE)

\* core/process.rs, impl Process for S: StreamProcess: process_byte over
\* source[lo..hi] in order, starting from the result r of the bytes before lo
\* (the range is halved to keep the evaluation shallow on long chunks)
RECURSIVE ClassicEncRange(_, _, _, _)
ClassicEncRange(r, source, lo, hi) ==
    IF r.panic \/ lo > hi THEN r
    ELSE IF lo = hi THEN ClassicEncProcessByte(r.p, source[lo], r.sink)
    ELSE LET mid == (lo + hi) \div 2
             left == ClassicEncRange(r, source, lo, mid)
         IN  IF left.panic THEN left ELSE ClassicEncRange(left, source, mid + 1, hi)

\* core/process.rs, impl Process for S: StreamProcess: process_byte over the chunk
MutFlushAtChunkEnd(p, source, sink) ==
    LET r == ClassicEncRange(Ret(p, sink, FALSE), source, 1, Len(source))
    IN  IF r.panic THEN r ELSE ClassicEncFinishByte(r.p, r.sink)

ClassicEncProcess(p, source, sink) ==
    ClassicEncRange(Ret(p, sink, FALSE), source, 1, Len(source))

ClassicEncFinish(p, sink) == ClassicEncFinishByte(p, sink)

\* core/process.rs, impl Process for S: StreamProcess: process_byte over the chunk
RECURSIVE ClassicDecProcess(_, _, _)
ClassicDecProcess(p, source, sink) ==
    IF source = <<>> THEN Ret(p, sink, FALSE)
    ELSE LET r == ClassicDecProcessByte(p, Head(source), sink)
         IN  IF r.panic THEN r ELSE ClassicDecProcess(r.p, Tail(source), r.sink)

ClassicDecFinish(p, sink) == ClassicDecFinishByte(p, sink)

(***************************************************************************)
(* processors/rle/lossy.rs                                                 *)
(***************************************************************************)
LOSSY_RLE_THRESHOLD == 2

\* LossyRleEncoder::with_threshold
LossyEncNew(threshold) ==
    [repetition |-> 0, threshold |-> threshold, last_symbol |-> None, loss_count |-> 0]

LossyNewSymbol(p, byte) == [p EXCEPT !.last_symbol = Some(byte), !.repetition = 1]

LossyReset(p) == [p EXCEPT !.last_symbol = None, !.repetition = 0]

\* LossyRleEncoder::write_to_sink: repetition as u8 + loss_count as u8 - 1u8
LossyWriteToSink(p, sink) ==
    LET sum == (p.repetition % U8Mod) + (p.loss_count % U8Mod)
        wrapped == sum % U8Mod
        overflow == sum > U8Max \/ wrapped = 0
        count == (wrapped + U8Mod - 1) % U8Mod
    IN  IF OverflowPanics(overflow)
        THEN Ret(p, Append(sink, Unwrap(p.last_symbol)), TRUE)
        ELSE Ret([p EXCEPT !.loss_count = 0],
                 sink \o <<Unwrap(p.last_symbol), count>>, FALSE)

\* LossyRleEncoder::process_byte
LossyEncProcessByte(p, byte, sink) ==
    IF p.last_symbol = None
    THEN Ret(LossyNewSymbol(p, byte), sink, FALSE)
    ELSE IF Unwrap(p.last_symbol) = byte
         THEN Ret([p EXCEPT !.repetition = @ + 1], sink, FALSE)
         ELSE IF p.repetition < p.threshold
              THEN Ret(LossyNewSymbol([p EXCEPT !.loss_count = @ + p.repetition], byte),
                       sink, FALSE)
              ELSE LET w == LossyWriteToSink(p, sink)
                   IN  IF w.panic THEN w ELSE Ret(LossyNewSymbol(w.p, byte), w.sink, FALSE)

\* LossyRleEncoder::finish_byte
LossyEncFinishByte(p, sink) ==
    IF p.last_symbol = None
    THEN Ret(p, sink, FALSE)
    ELSE LET w == LossyWriteToSink(p, sink)
         IN  IF w.panic THEN w ELSE Ret(LossyReset(w.p), w.sink, FALSE)

\* LossyRleDecoder::new
LossyDecNew == [last_symbol |-> None]

\* LossyRleDecoder::process_byte
LossyDecProcessByte(p, byte, sink) ==
    IF p.last_symbol = None
    THEN Ret([p EXCEPT !.last_symbol = Some(byte)], sink, FALSE)
    ELSE Ret([p EXCEPT !.last_symbol = None],
             sink \o Repeat(Unwrap(p.last_symbol), byte + 1), FALSE)

\* LossyRleDecoder::finish_byte
LossyDecFinishByte(p, sink) ==
    IF p.last_symbol = None
    THEN Ret(p, sink, FALSE)
    ELSE Ret(p, Append(sink, Unwrap(p.last_symbol)), FALSE)

\* core/process.rs, impl Process for S: StreamProcess: process_byte over
\* source[lo..hi] in order, starting from the result r of the bytes before lo
\* (the range is halved to keep the evaluation shallow on long chunks)
RECURSIVE LossyEncRange(_, _, _, _)
LossyEncRange(r, source, lo, hi) ==
    IF r.panic \/ lo > hi THEN r
    ELSE IF lo = hi THEN LossyEncProcessByte(r.p, source[lo], r.sink)
    ELSE LET mid == (lo + hi) \div 2
             left == LossyEncRange(r, source, lo, mid)
         IN  IF left.panic THEN left ELSE LossyEncRange(left, source, mid + 1, hi)

\* core/process.rs, impl Process for S: StreamProcess: process_byte over the chunk
LossyEncProcess(p, source, sink) ==
    LossyEncRange(Ret(p, sink, FALSE), source, 1, Len(source))

LossyEncFinish(p, sink) == LossyEncFinishByte(p, sink)

\* core/process.rs, impl Process for S: StreamProcess: process_byte over the chunk
RECURSIVE LossyDecProcess(_, _, _)
LossyDecProcess(p, source, sink) ==
    IF source = <<>> THEN Ret(p, sink, FALSE)
    ELSE LET r == LossyDecProcessByte(p, Head(source), sink)
         IN  IF r.panic THEN r ELSE LossyDecProcess(r.p, Tail(source), r.sink)

LossyDecFinish(p, sink) == LossyDecFinishByte(p, sink)

(***************************************************************************)
(* processors/rle/telemetry.rs                                             *)
(***************************************************************************)
TELEMETRY_RLE_MAX_THRESHOLD == 10
TelemetryMid == 128
TelemetryGroup == 8
TelemetryDecGroup == 9

\* source.chunks_exact(n): the full groups, and chunks.remainder()
ChunksExact(source, n) ==
    [k \in 1..(Len(source) \div n) |-> SubSeq(source, (k - 1) * n + 1, k * n)]

ChunksRemainder(source, n) ==
    SubSeq(source, (Len(source) \div n) * n + 1, Len(source))

\* TelemetryRleEncoder::with_threshold
TelemetryEncNew(threshold) ==
    [max_threshold |-> threshold, remainder |-> None, last_byte |-> 0]

\* the loop body shared by process_chunk and finish of the encoder; the
\* accumulator is [last_byte, infobyte, sink, panic]
TelemetryEncByte(acc, max_threshold, c) ==
    LET infobyte == (acc.infobyte * 2) % U8Mod
        diff == Max(acc.last_byte, c) - Min(acc.last_byte, c)
    IN  IF diff <= max_threshold
        THEN IF acc.last_byte > c
             THEN IF OverflowPanics(diff > TelemetryMid)
                  THEN [acc EXCEPT !.panic = TRUE]
                  ELSE [last_byte |-> c, infobyte |-> infobyte,
                        sink |-> Append(acc.sink, (TelemetryMid - diff) % U8Mod),
                        panic |-> FALSE]
             ELSE IF OverflowPanics(TelemetryMid + diff > U8Max)
                  THEN [acc EXCEPT !.panic = TRUE]
                  ELSE [last_byte |-> c, infobyte |-> infobyte,
                        sink |-> Append(acc.sink, (TelemetryMid + diff) % U8Mod),
                        panic |-> FALSE]
        ELSE [last_byte |-> c, infobyte |-> infobyte + 1,
              sink |-> Append(acc.sink, c), panic |-> FALSE]

RECURSIVE TelemetryEncBytes(_, _, _)
TelemetryEncBytes(acc, max_threshold, data) ==
    IF data = <<>> \/ acc.panic THEN acc
    ELSE TelemetryEncBytes(TelemetryEncByte(acc, max_threshold, Head(data)),
                           max_threshold, Tail(data))

\* TelemetryRleEncoder::process_chunk: the bytes of the group, then the info byte
TelemetryEncProcessChunk(p, chunk, sink) ==
    LET acc == TelemetryEncBytes([last_byte |-> p.last_byte, infobyte |-> 0,
                                  sink |-> sink, panic |-> FALSE],
                                 p.max_threshold, chunk)
    IN  IF acc.panic THEN Ret(p, acc.sink, TRUE)
        ELSE Ret([p EXCEPT !.last_byte = acc.last_byte],
                 Append(acc.sink, acc.infobyte), FALSE)

RECURSIVE TelemetryEncChunks(_, _, _)
TelemetryEncChunks(p, chunks, sink) ==
    IF chunks = <<>> THEN Ret(p, sink, FALSE)
    ELSE LET r == TelemetryEncProcessChunk(p, Head(chunks), sink)
         IN  IF r.panic THEN r ELSE TelemetryEncChunks(r.p, Tail(chunks), r.sink)

\* TelemetryRleEncoder::process: the remainder is replaced on every call
TelemetryEncProcess(p, source, sink) ==
    LET r == ChunksRemainder(source, TelemetryGroup)
        p1 == [p EXCEPT !.remainder = IF r = <<>> THEN None ELSE Some(r)]
    IN  TelemetryEncChunks(p1, ChunksExact(source, TelemetryGroup), sink)

\* TelemetryRleEncoder::finish encoding the remainder even when there is none
MutFinishEmitsInfo(p, sink) ==
    TelemetryEncProcessChunk(p, IF p.remainder = None THEN <<>> ELSE Unwrap(p.remainder),
                             sink)

\* TelemetryRleEncoder::finish: the remainder is encoded like a group and is
\* left in place
TelemetryEncFinish(p, sink) ==
    IF p.remainder = None THEN Ret(p, sink, FALSE)
    ELSE TelemetryEncProcessChunk(p, Unwrap(p.remainder), sink)

\* TelemetryRleDecoder::new
TelemetryDecNew == [remainder |-> None, last_byte |-> 0]

\* infobyte & 0b1000_0000 > 0
TelemetryTopBit(infobyte) == infobyte >= TelemetryMid

\* the loop body shared by process_chunk and finish of the decoder; the
\* accumulator is [last_byte, infobyte, sink, panic]
MutDecRawKeepsLast(acc, byte) ==
    LET shifted == (acc.infobyte * 2) % U8Mod
    IN  IF TelemetryTopBit(acc.infobyte)
        THEN [last_byte |-> acc.last_byte, infobyte |-> shifted,
              sink |-> Append(acc.sink, byte), panic |-> FALSE]
        ELSE LET diff == Max(TelemetryMid, byte) - Min(TelemetryMid, byte)
                 up == (acc.last_byte + diff) % U8Mod
                 down == (acc.last_byte + U8Mod - diff) % U8Mod
             IN  [last_byte |-> IF byte >= TelemetryMid THEN up ELSE down,
                  infobyte |-> shifted,
                  sink |-> Append(acc.sink, IF byte >= TelemetryMid THEN up ELSE down),
                  panic |-> FALSE]

TelemetryDecByte(acc, byte) ==
    LET shifted == (acc.infobyte * 2) % U8Mod
    IN  IF TelemetryTopBit(acc.infobyte)
        THEN [last_byte |-> byte, infobyte |-> shifted,
              sink |-> Append(acc.sink, byte), panic |-> FALSE]
        ELSE LET diff == Max(TelemetryMid, byte) - Min(TelemetryMid, byte)
             IN  IF byte >= TelemetryMid
                 THEN IF OverflowPanics(acc.last_byte + diff > U8Max)
                      THEN [acc EXCEPT !.panic = TRUE]
                      ELSE [last_byte |-> (acc.last_byte + diff) % U8Mod,
                            infobyte |-> shifted,
                            sink |-> Append(acc.sink, (acc.last_byte + diff) % U8Mod),
                            panic |-> FALSE]
                 ELSE IF OverflowPanics(acc.last_byte < diff)
                      THEN [acc EXCEPT !.panic = TRUE]
                      ELSE [last_byte |-> (acc.last_byte + U8Mod - diff) % U8Mod,
                            infobyte |-> shifted,
                            sink |-> Append(acc.sink, (acc.last_byte + U8Mod - diff) % U8Mod),
                            panic |-> FALSE]

RECURSIVE TelemetryDecBytes(_, _)
TelemetryDecBytes(acc, data) ==
    IF data = <<>> \/ acc.panic THEN acc
    ELSE TelemetryDecBytes(TelemetryDecByte(acc, Head(data)), Tail(data))

\* the info byte is the last byte of the data, the symbols are the bytes before it
TelemetryDecData(p, data, symbols, sink) ==
    LET acc == TelemetryDecBytes([last_byte |-> p.last_byte,
                                  infobyte |-> data[Len(data)],
                                  sink |-> sink, panic |-> FALSE], symbols)
    IN  IF acc.panic THEN Ret(p, acc.sink, TRUE)
        ELSE Ret([p EXCEPT !.last_byte = acc.last_byte], acc.sink, FALSE)

\* TelemetryRleDecoder::process_chunk: chunk[chunk.len() - 1] and &chunk[..8]
TelemetryDecProcessChunk(p, chunk, sink) ==
    TelemetryDecData(p, chunk, SubSeq(chunk, 1, TelemetryGroup), sink)

RECURSIVE TelemetryDecChunks(_, _, _)
TelemetryDecChunks(p, chunks, sink) ==
    IF chunks = <<>> THEN Ret(p, sink, FALSE)
    ELSE LET r == TelemetryDecProcessChunk(p, Head(chunks), sink)
         IN  IF r.panic THEN r ELSE TelemetryDecChunks(r.p, Tail(chunks), r.sink)

\* TelemetryRleDecoder::process
TelemetryDecProcess(p, source, sink) ==
    LET r == ChunksRemainder(source, TelemetryDecGroup)
        p1 == [p EXCEPT !.remainder = IF r = <<>> THEN None ELSE Some(r)]
    IN  TelemetryDecChunks(p1, ChunksExact(source, TelemetryDecGroup), sink)

\* TelemetryRleDecoder::finish: data[data.len() - 1] and &data[..data.len() - 1]
TelemetryDecFinish(p, sink) ==
    IF p.remainder = None THEN Ret(p, sink, FALSE)
    ELSE LET data == Unwrap(p.remainder)
         IN  TelemetryDecData(p, data, SubSeq(data, 1, Len(data) - 1), sink)

(***************************************************************************)
(* processors/rle/conditional/rlesortedu8.rs (RLEU8, the Code Table): a    *)
(* bijection between the ranks 0..2^bits-1 and the byte values below       *)
(* 2^bits.  Following the module documentation of processors/rle, the      *)
(* codes are ordered by their number of bit runs (fewest first), so rank 0 *)
(* has the code 0.  A code table is identified by its bit length.          *)
(***************************************************************************)
MinBitLength == 1
MaxBitLength == 8

RECURSIVE Pow2(_)
Pow2(n) == IF n = 0 THEN 1 ELSE 2 * Pow2(n - 1)

BitOf(v, i) == (v \div Pow2(i)) % 2

\* the number of runs of equal bits in the bits-wide pattern of v
BitRuns(v, bits) == 1 + Cardinality({i \in 0..(bits - 2) : BitOf(v, i) # BitOf(v, i + 1)})

\* per bit length: rankOf maps a code to its rank, codeOf a rank to its code
CodeTables ==
    [bits \in MinBitLength..MaxBitLength |->
        LET codes == 0..(Pow2(bits) - 1)
            key == [v \in codes |-> BitRuns(v, bits) * U8Mod + v]
            rankOf == [v \in codes |-> Cardinality({w \in codes : key[w] < key[v]})]
        IN  [rankOf |-> rankOf,
             codeOf |-> [r \in codes |-> CHOOSE v \in codes : rankOf[v] = r]]]

\* RLEU8::bitlength, RLEU8::with_bitlength (Bit8 is with_bitlength(8))
CodeBitLength(code_table) == code_table

\* RLEU8::encode(rank) -> Option<&u8>
CodeEncode(code_table, rank) ==
    IF rank \in DOMAIN CodeTables[code_table].codeOf
    THEN Some(CodeTables[code_table].codeOf[rank]) ELSE None

\* RLEU8::decode(val) -> Option<usize>
CodeDecode(code_table, val) ==
    IF val \in DOMAIN CodeTables[code_table].rankOf
    THEN Some(CodeTables[code_table].rankOf[val]) ELSE None

(***************************************************************************)
(* processors/rle/conditional/mod.rs.  The encoder is [order, ctx_tables,  *)
(* code_table], the decoder [order, tables, code]; the per-context map is  *)
(* a function from contexts (byte sequences) to ProbTables.                *)
(***************************************************************************)
\* with_order_with_bitlength(order, length)
ConditionalEncNew(order, length) ==
    [order |-> order, ctx_tables |-> <<>>, code_table |-> length]

ConditionalDecNew(order, length) ==
    [order |-> order, tables |-> <<>>, code |-> length]

\* the table single_update creates for a new context: new(), feed(0..=u8::MAX)
MutUnseeded == ProbTableNew

SeededTable == Feed(ProbTableNew, [i \in 1..U8Mod |-> i - 1])

\* single_update(cx, val) on a per-context map
MutSingleUpdateBare(tables, cx, val) ==
    IF cx \in DOMAIN tables
    THEN [tables EXCEPT ![cx] = Insert(tables[cx], val).t]
    ELSE (cx :> Insert(ProbTableNew, val).t) @@ tables

SingleUpdate(tables, cx, val) ==
    IF cx \in DOMAIN tables
    THEN [tables EXCEPT ![cx] = Insert(tables[cx], val).t]
    ELSE (cx :> Insert(SeededTable, val).t) @@ tables

\* the context of position i (1-based) of a chunk in the loops of
\* ConditionalRleEncoder::process and of full_update: the growing prefix for the
\* first `order` positions, then the window of the `order` bytes before i
WindowContext(order, bytes, i) ==
    IF i <= order THEN SubSeq(bytes, 1, i - 1) ELSE SubSeq(bytes, i - order, i - 1)

\* full_update(bytes): one single_update per position, in order
RECURSIVE FullUpdateFrom(_, _, _, _)
FullUpdateFrom(tables, order, bytes, i) ==
    IF i > Len(bytes) THEN tables
    ELSE FullUpdateFrom(SingleUpdate(tables, WindowContext(order, bytes, i), bytes[i]),
                        order, bytes, i + 1)

FullUpdate(tables, order, bytes) == FullUpdateFrom(tables, order, bytes, 1)

\* ConditionalRleEncoder::encode(cx, next): the code of next's rank in the
\* context's table, or next itself when a table, a rank or a code is missing
MutEncodeRaw(p, cx, next) == next

ConditionalEncode(p, cx, next) ==
    LET rank == IF cx \in DOMAIN p.ctx_tables THEN Rank(p.ctx_tables[cx], next) ELSE None
        code == IF IsSome(rank) THEN CodeEncode(p.code_table, Unwrap(rank)) ELSE None
    IN  IF IsSome(code) THEN Unwrap(code) ELSE next

\* ConditionalRleEncoder::process with full_update moved before the encoding
MutEncUpdatesFirst(p, bytes, sink) ==
    LET q == [p EXCEPT !.ctx_tables = FullUpdate(p.ctx_tables, p.order, bytes)]
    IN  Ret(q,
            sink \o [i \in 1..Len(bytes) |->
                        ConditionalEncode(q, WindowContext(p.order, bytes, i), bytes[i])],
            FALSE)

\* ConditionalRleEncoder::process: encode every position against the tables as
\* they are, then full_update with the chunk
ConditionalEncProcess(p, bytes, sink) ==
    Ret([p EXCEPT !.ctx_tables = FullUpdate(p.ctx_tables, p.order, bytes)],
        sink \o [i \in 1..Len(bytes) |->
                    ConditionalEncode(p, WindowContext(p.order, bytes, i), bytes[i])],
        FALSE)

ConditionalEncFinish(p, sink) == Ret(p, sink, FALSE)

\* ConditionalRleDecoder::decode(cx, val): None when code.decode(val) is None
\* (the unwrap panics), else the symbol at the decoded rank in the context's
\* table, or the code of that rank when the table or the rank is missing
ConditionalDecode(p, cx, val) ==
    LET decoded_val == CodeDecode(p.code, val)
    IN  IF decoded_val = None THEN None
        ELSE LET pos == IF cx \in DOMAIN p.tables
                        THEN Position(p.tables[cx], Unwrap(decoded_val)) ELSE None
             IN  IF IsSome(pos) THEN pos ELSE CodeEncode(p.code, Unwrap(decoded_val))

\* the context vector v after the symbol at position i (1-based) was decoded:
\* pushed for the first `order` positions, then rotate_left(1) and overwrite
MutDecContextGrows(order, v, i, decoded) == Append(v, decoded)

DecContextAfter(order, v, i, decoded) ==
    IF i <= order THEN Append(v, decoded)
    ELSE IF order > 0 THEN Append(Tail(v), decoded) ELSE v

\* the loops of ConditionalRleDecoder::process; the accumulator is
\* [v, update_vector, sink, panic]
RECURSIVE ConditionalDecLoop(_, _, _, _)
ConditionalDecLoop(p, byte, i, acc) ==
    IF i > Len(byte) \/ acc.panic THEN acc
    ELSE LET decoded == ConditionalDecode(p, acc.v, byte[i])
         IN  IF decoded = None THEN [acc EXCEPT !.panic = TRUE]
             ELSE ConditionalDecLoop(p, byte, i + 1,
                    [v |-> DecContextAfter(p.order, acc.v, i, Unwrap(decoded)),
                     update_vector |-> Append(acc.update_vector, Unwrap(decoded)),
                     sink |-> Append(acc.sink, Unwrap(decoded)),
                     panic |-> FALSE])

\* ConditionalRleDecoder::process: decode the chunk, then full_update with the
\* decoded symbols
ConditionalDecProcess(p, byte, sink) ==
    LET acc == ConditionalDecLoop(p, byte, 1,
                    [v |-> <<>>, update_vector |-> <<>>, sink |-> sink, panic |-> FALSE])
    IN  IF acc.panic THEN Ret(p, acc.sink, TRUE)
        ELSE Ret([p EXCEPT !.tables = FullUpdate(p.tables, p.order, acc.update_vector)],
                 acc.sink, FALSE)

ConditionalDecFinish(p, sink) == Ret(p, sink, FALSE)

(***************************************************************************)
(* processors/duplicate.rs, processors/adler32.rs, processors/crc32.rs.    *)
(***************************************************************************)
DuplicateNew == <<>>

\* Duplicate::process: sink.extend(source)
MutDuplicateDropsLast(p, source, sink) ==
    Ret(p, sink \o SubSeq(source, 1, Len(source) - 1), FALSE)

DuplicateProcess(p, source, sink) == Ret(p, sink \o source, FALSE)

DuplicateFinish(p, sink) == Ret(p, sink, FALSE)

U16Mod == 65536
U16Max == 65535

Adler32New == [a |-> 1, b |-> 0]

\* one iteration of Adler32::process: self.a += *byte as u16 % u16::MAX;
\* self.b += self.a % u16::MAX, in u16; the result is [p, panic]
Adler32Byte(p, byte) ==
    LET a == p.a + (byte % U16Max)
        b == p.b + ((a % U16Mod) % U16Max)
    IN  IF OverflowPanics(a >= U16Mod) THEN [p |-> p, panic |-> TRUE]
        ELSE IF OverflowPanics(b >= U16Mod)
             THEN [p |-> [p EXCEPT !.a = a % U16Mod], panic |-> TRUE]
             ELSE [p |-> [a |-> a % U16Mod, b |-> b % U16Mod], panic |-> FALSE]

RECURSIVE Adler32Process(_, _, _)
Adler32Process(p, source, sink) ==
    IF source = <<>> THEN Ret(p, sink, FALSE)
    ELSE LET r == Adler32Byte(p, Head(source))
         IN  IF r.panic THEN Ret(r.p, sink, TRUE)
             ELSE Adler32Process(r.p, Tail(source), sink)

\* Adler32::finish: Ok(0), nothing is written
Adler32Finish(p, sink) == Ret(p, sink, FALSE)

\* Checksum for Adler32: ((self.b as u32) << 16) | self.a as u32, kept as the
\* high and the low 16 bits of the u32
Adler32Checksum(p) == [high |-> p.b, low |-> p.a]

\* the ASCII code of the uppercase hexadecimal digit n
HexDigit(n) == IF n < 10 THEN 48 + n ELSE 55 + n

\* the four hexadecimal digits of a 16-bit value
Hex4(v) ==
    <<HexDigit(v \div 4096), HexDigit((v \div 256) % 16),
      HexDigit((v \div 16) % 16), HexDigit(v % 16)>>

\* Display for Adler32: write!(f, "Adler32<{csum:#010X}>"), as ASCII bytes
Adler32Display(p) ==
    <<65, 100, 108, 101, 114, 51, 50, 60, 48, 120>>
        \o Hex4(Adler32Checksum(p).high) \o Hex4(Adler32Checksum(p).low) \o <<62>>

\* crc32::Digest of the crc crate, kept as the bytes written to it
CRC32New == <<>>

\* CRC32::process: self.a.write(source)
CRC32Process(p, source, sink) == Ret(p \o source, sink, FALSE)

\* CRC32::finish: Ok(0), nothing is written
CRC32Finish(p, sink) == Ret(p, sink, FALSE)

(***************************************************************************)
(* core/process.rs: the Process trait over the processors of the crate,    *)
(* each in the state its Default gives it.                                 *)
(***************************************************************************)
ProcessorKinds ==
    {"Duplicate", "Adler32", "CRC32",
     "RleClassicEncoder", "RleClassicDecoder",
     "LossyRleEncoder", "LossyRleDecoder",
     "TelemetryRleEncoder", "TelemetryRleDecoder",
     "ConditionalRleEncoder", "ConditionalRleDecoder"}

DefaultOrder == 1

ProcessorDefault(kind) ==
    CASE kind = "Duplicate" -> DuplicateNew
      [] kind = "Adler32" -> Adler32New
      [] kind = "CRC32" -> CRC32New
      [] kind = "RleClassicEncoder" -> ClassicNew(CLASSIC_RLE_THRESHOLD)
      [] kind = "RleClassicDecoder" -> ClassicNew(CLASSIC_RLE_THRESHOLD)
      [] kind = "LossyRleEncoder" -> LossyEncNew(LOSSY_RLE_THRESHOLD)
      [] kind = "LossyRleDecoder" -> LossyDecNew
      [] kind = "TelemetryRleEncoder" -> TelemetryEncNew(TELEMETRY_RLE_MAX_THRESHOLD)
      [] kind = "TelemetryRleDecoder" -> TelemetryDecNew
      [] kind = "ConditionalRleEncoder" -> ConditionalEncNew(DefaultOrder, MaxBitLength)
      [] kind = "ConditionalRleDecoder" -> ConditionalDecNew(DefaultOrder, MaxBitLength)

\* Process::process(source, sink) of a processor [kind, p]
Process(kind, p, source, sink) ==
    CASE kind = "Duplicate" -> DuplicateProcess(p, source, sink)
      [] kind = "Adler32" -> Adler32Process(p, source, sink)
      [] kind = "CRC32" -> CRC32Process(p, source, sink)
      [] kind = "RleClassicEncoder" -> ClassicEncProcess(p, source, sink)
      [] kind = "RleClassicDecoder" -> ClassicDecProcess(p, source, sink)
      [] kind = "LossyRleEncoder" -> LossyEncProcess(p, source, sink)
      [] kind = "LossyRleDecoder" -> LossyDecProcess(p, source, sink)
      [] kind = "TelemetryRleEncoder" -> TelemetryEncProcess(p, source, sink)
      [] kind = "TelemetryRleDecoder" -> TelemetryDecProcess(p, source, sink)
      [] kind = "ConditionalRleEncoder" -> ConditionalEncProcess(p, source, sink)
      [] kind = "ConditionalRleDecoder" -> ConditionalDecProcess(p, source, sink)

\* Process::finish(sink)
Finish(kind, p, sink) ==
    CASE kind = "Duplicate" -> DuplicateFinish(p, sink)
      [] kind = "Adler32" -> Adler32Finish(p, sink)
      [] kind = "CRC32" -> CRC32Finish(p, sink)
      [] kind = "RleClassicEncoder" -> ClassicEncFinish(p, sink)
      [] kind = "RleClassicDecoder" -> ClassicDecFinish(p, sink)
      [] kind = "LossyRleEncoder" -> LossyEncFinish(p, sink)
      [] kind = "LossyRleDecoder" -> LossyDecFinish(p, sink)
      [] kind = "TelemetryRleEncoder" -> TelemetryEncFinish(p, sink)
      [] kind = "TelemetryRleDecoder" -> TelemetryDecFinish(p, sink)
      [] kind = "ConditionalRleEncoder" -> ConditionalEncFinish(p, sink)
      [] kind = "ConditionalRleDecoder" -> ConditionalDecFinish(p, sink)

(***************************************************************************)
(* Specification SpecProb: any sequence of insert and feed calls on one    *)
(* ProbTable.                                                              *)
(***************************************************************************)
MaxProbVal == 3
MaxInserts == 5
MaxFeedLen == 2

ProbVals == 0..MaxProbVal

RECURSIVE SeqsUpTo(_, _)
SeqsUpTo(S, n) ==
    IF n = 0 THEN {<<>>}
    ELSE LET shorter == SeqsUpTo(S, n - 1)
         IN  shorter \cup {Append(s, x) : s \in {q \in shorter : Len(q) = n - 1}, x \in S}

NoInsert == [before |-> ProbTableNew, val |-> 0, r |-> 0, done |-> FALSE]

IdleProb ==
    /\ table = ProbTableNew
    /\ inserted = <<>>
    /\ lastInsert = NoInsert

IdleCodec ==
    /\ enc = None
    /\ dec = None
    /\ original = <<>>
    /\ cuts = <<>>
    /\ encSink = <<>>
    /\ feeds = <<>>
    /\ decSink = <<>>
    /\ phase = "idle"

IdleStream ==
    /\ driver = "none"
    /\ reader = None
    /\ writer = None
    /\ processor = None
    /\ buffer = <<>>
    /\ consumed = 0
    /\ filled = <<>>
    /\ pc = "idle"
    /\ result = None
    /\ log = <<>>

InitProb ==
    /\ build \in Builds
    /\ IdleProb
    /\ IdleCodec
    /\ IdleStream

ProbInsert ==
    /\ Len(inserted) < MaxInserts
    /\ \E val \in ProbVals :
        LET res == Insert(table, val)
        IN  /\ table' = res.t
            /\ inserted' = Append(inserted, val)
            /\ lastInsert' = [before |-> table, val |-> val, r |-> res.r, done |-> TRUE]
    /\ UNCHANGED <<build, codecVars, streamVars>>

ProbFeed ==
    /\ \E vals \in SeqsUpTo(ProbVals, MaxFeedLen) :
        /\ Len(vals) = MaxFeedLen
        /\ Len(inserted) + Len(vals) <= MaxInserts
        /\ table' = Feed(table, vals)
        /\ inserted' = inserted \o vals
        /\ lastInsert' = NoInsert
    /\ UNCHANGED <<build, codecVars, streamVars>>

NextProb == ProbInsert \/ ProbFeed

SpecProb == InitProb /\ [][NextProb]_vars

\* C5: after any sequence of insert and feed calls, the counts read in rank
\* order (position 0, 1, 2, ...) are non-increasing.
RankOrderNonIncreasing ==
    \A r \in 0..(Members(table) - 2) :
        Unwrap(Count(table, Unwrap(Position(table, r))))
            >= Unwrap(Count(table, Unwrap(Position(table, r + 1))))

\* C5 witness: a table of three symbols in which a later-inserted symbol was
\* promoted over the first one and the counts strictly fall along the ranks.
RankOrderWitness ==
    /\ Members(table) >= 3
    /\ inserted # <<>>
    /\ Position(table, 0) # Some(inserted[1])
    /\ NodeAt(table, 0).count > NodeAt(table, 1).count
    /\ NodeAt(table, 1).count >= NodeAt(table, 2).count
    /\ NodeAt(table, 0).count > NodeAt(table, 2).count + 1

\* C6: the map and the ordered sequence are mutually consistent: every inserted
\* symbol's stored rank is its index in the ordered sequence, position(rank(x)) = x,
\* and rank is a bijection between the inserted symbols and 0..members()-1.
MapVectorConsistent ==
    /\ \A x \in DOMAIN table.hm :
        /\ IsSome(Rank(table, x))
        /\ Unwrap(Rank(table, x)) < Members(table)
        /\ table.sorted_vec[Unwrap(Rank(table, x)) + 1] = x
        /\ Position(table, Unwrap(Rank(table, x))) = Some(x)
    /\ {inserted[i] : i \in 1..Len(inserted)} = DOMAIN table.hm
    /\ {Unwrap(Rank(table, x)) : x \in DOMAIN table.hm} = 0..(Members(table) - 1)
    /\ Cardinality(DOMAIN table.hm) = Members(table)

\* C6 witness: after a swap, a symbol inserted first no longer holds rank 0 and
\* three symbols are present.
MapVectorWitness ==
    /\ Members(table) >= 3
    /\ lastInsert.done
    /\ IsSome(Rank(lastInsert.before, lastInsert.val))
    /\ lastInsert.r # Unwrap(Rank(lastInsert.before, lastInsert.val))
    /\ Rank(table, inserted[1]) # Some(0)

(***************************************************************************)
(* The codec pipelines.  An encoder is driven by process calls on chunks   *)
(* and then finish; the decoder is then driven over the encoder's complete *)
(* output, again by process calls and finish.                              *)
(***************************************************************************)
MaxSourceLen == 4
MaxEncCalls == 2
MaxDecCalls == 2

RECURSIVE SumSeq(_)
SumSeq(q) == IF q = <<>> THEN 0 ELSE Head(q) + SumSeq(Tail(q))

Fed == SumSeq(feeds)

\* the chunks a decoder process call may receive: the next n bytes of the encoder's
\* output; the last permitted call takes all that is left
DecChunkLens ==
    LET left == Len(encSink) - Fed
    IN  IF Len(feeds) + 1 >= MaxDecCalls THEN {left} ELSE 0..left

DecChunk(n) == SubSeq(encSink, Fed + 1, Fed + n)

\* one encoder process call: r is the call's result [p, sink, panic]
EncStep(chunk, r) ==
    /\ enc' = r.p
    /\ encSink' = r.sink
    /\ original' = original \o chunk
    /\ cuts' = Append(cuts, Len(chunk))
    /\ phase' = IF r.panic THEN "panicked" ELSE phase
    /\ UNCHANGED <<dec, feeds, decSink>>

\* the encoder's finish call
EncEnd(r) ==
    /\ enc' = r.p
    /\ encSink' = r.sink
    /\ phase' = IF r.panic THEN "panicked" ELSE "decoding"
    /\ UNCHANGED <<dec, original, cuts, feeds, decSink>>

\* one decoder process call on the next n encoded bytes
DecStep(n, r) ==
    /\ dec' = r.p
    /\ decSink' = r.sink
    /\ feeds' = Append(feeds, n)
    /\ phase' = IF r.panic THEN "panicked" ELSE phase
    /\ UNCHANGED <<enc, original, cuts, encSink>>

\* the decoder's finish call
DecEnd(r) ==
    /\ dec' = r.p
    /\ decSink' = r.sink
    /\ phase' = IF r.panic THEN "panicked" ELSE "done"
    /\ UNCHANGED <<enc, original, cuts, encSink, feeds>>

(***************************************************************************)
(* Specification SpecClassic: RleClassicEncoder and RleClassicDecoder      *)
(* constructed with the same threshold (From<RleClassicEncoder>).          *)
(***************************************************************************)
MaxThreshold == 3

ClassicBytes == {0, 1, 2}

InitClassic ==
    /\ build \in Builds
    /\ IdleProb
    /\ IdleStream
    /\ \E t \in CLASSIC_RLE_THRESHOLD..MaxThreshold :
        /\ enc = ClassicNew(t)
        /\ dec = ClassicNew(t)
    /\ original = <<>>
    /\ cuts = <<>>
    /\ encSink = <<>>
    /\ feeds = <<>>
    /\ decSink = <<>>
    /\ phase = "encoding"

\* runs of one symbol whose excess over the threshold is the largest count byte
\* and one more
ClassicLongRuns ==
    {Repeat(b, enc.max_threshold + n) : b \in ClassicBytes, n \in {U8Max, U8Mod}}

\* the part of the input that was not fed as a long run
ClassicShortFed ==
    SumSeq([i \in DOMAIN cuts |-> IF cuts[i] > U8Max THEN 0 ELSE cuts[i]])

\* the bytes fed up to and including the long run
LongFed ==
    LET at == CHOOSE i \in DOMAIN cuts : cuts[i] > U8Max
    IN  SumSeq(SubSeq(cuts, 1, at))

\* the chunks a process call of the encoder may receive: any byte string that
\* keeps the short input within the bound; a long run may come first or after
\* one byte, and may be followed by one byte
ClassicChunks ==
    IF \E i \in DOMAIN cuts : cuts[i] > U8Max
    THEN SeqsUpTo(ClassicBytes, 1 - Min(1, Len(original) - LongFed))
    ELSE SeqsUpTo(ClassicBytes, MaxSourceLen - ClassicShortFed)
            \cup (IF ClassicShortFed <= 1 THEN ClassicLongRuns ELSE {})

ClassicEncode ==
    /\ phase = "encoding"
    /\ Len(cuts) < MaxEncCalls
    /\ \E chunk \in ClassicChunks :
        EncStep(chunk, ClassicEncProcess(enc, chunk, encSink))
    /\ UNCHANGED <<build, probVars, streamVars>>

ClassicEncodeFinish ==
    /\ phase = "encoding"
    /\ cuts # <<>>
    /\ EncEnd(ClassicEncFinish(enc, encSink))
    /\ UNCHANGED <<build, probVars, streamVars>>

ClassicDecode ==
    /\ phase = "decoding"
    /\ Len(feeds) < MaxDecCalls
    /\ \E n \in DecChunkLens :
        DecStep(n, ClassicDecProcess(dec, DecChunk(n), decSink))
    /\ UNCHANGED <<build, probVars, streamVars>>

ClassicDecodeFinish ==
    /\ phase = "decoding"
    /\ Fed = Len(encSink)
    /\ feeds # <<>>
    /\ DecEnd(ClassicDecFinish(dec, decSink))
    /\ UNCHANGED <<build, probVars, streamVars>>

NextClassic ==
    \/ ClassicEncode
    \/ ClassicEncodeFinish
    \/ ClassicDecode
    \/ ClassicDecodeFinish

SpecClassic == InitClassic /\ [][NextClassic]_vars

\* C1: for every byte sequence and threshold t > 1, decoding (process, then
\* finish) the complete output of the encoder (process, then finish) with the
\* same threshold reproduces the input exactly.
ClassicRoundTrip ==
    (phase \in {"done", "panicked"} /\ Len(cuts) = 1 /\ Len(feeds) <= 1)
        => (phase = "done" /\ decSink = original)

(***************************************************************************)
(* Specification SpecTelemetry: TelemetryRleEncoder (new or                *)
(* with_threshold) and TelemetryRleDecoder::new.                           *)
(***************************************************************************)
MaxTelemetryLen == 9

\* with_threshold accepts every threshold up to 128
TelemetryThresholds == {TELEMETRY_RLE_MAX_THRESHOLD, 20, TelemetryMid}

TelemetryBytes == {3, 20}

\* groups of 8 bytes whose first byte may be 128
TelemetryEdgeGroups ==
    {[i \in 1..TelemetryGroup |-> IF i = 1 THEN a ELSE b] :
        a \in TelemetryBytes \cup {TelemetryMid}, b \in TelemetryBytes}

\* the chunks a process call of the encoder may receive: any byte string that
\* keeps the input within the bound or, as the first chunk, two whole groups
TelemetryChunks ==
    SeqsUpTo(TelemetryBytes, Max(0, MaxTelemetryLen - Len(original)))
        \cup (IF cuts = <<>> THEN {g \o h : g, h \in TelemetryEdgeGroups} ELSE {})

InitTelemetry ==
    /\ build \in Builds
    /\ IdleProb
    /\ IdleStream
    /\ \E threshold \in TelemetryThresholds : enc = TelemetryEncNew(threshold)
    /\ dec = TelemetryDecNew
    /\ original = <<>>
    /\ cuts = <<>>
    /\ encSink = <<>>
    /\ feeds = <<>>
    /\ decSink = <<>>
    /\ phase = "encoding"

TelemetryEncode ==
    /\ phase = "encoding"
    /\ Len(cuts) < MaxEncCalls
    /\ \E chunk \in TelemetryChunks :
        EncStep(chunk, TelemetryEncProcess(enc, chunk, encSink))
    /\ UNCHANGED <<build, probVars, streamVars>>

TelemetryEncodeFinish ==
    /\ phase = "encoding"
    /\ cuts # <<>>
    /\ EncEnd(TelemetryEncFinish(enc, encSink))
    /\ UNCHANGED <<build, probVars, streamVars>>

TelemetryDecode ==
    /\ phase = "decoding"
    /\ Len(feeds) < MaxDecCalls
    /\ \E n \in DecChunkLens :
        DecStep(n, TelemetryDecProcess(dec, DecChunk(n), decSink))
    /\ UNCHANGED <<build, probVars, streamVars>>

TelemetryDecodeFinish ==
    /\ phase = "decoding"
    /\ Fed = Len(encSink)
    /\ feeds # <<>>
    /\ DecEnd(TelemetryDecFinish(dec, decSink))
    /\ UNCHANGED <<build, probVars, streamVars>>

NextTelemetry ==
    \/ TelemetryEncode
    \/ TelemetryEncodeFinish
    \/ TelemetryDecode
    \/ TelemetryDecodeFinish

SpecTelemetry == InitTelemetry /\ [][NextTelemetry]_vars

\* C2: for every byte sequence of any length, multiples of 8 or not, decoding
\* (process, then finish) the complete output of the encoder (process, then
\* finish) reproduces the input exactly.
TelemetryRoundTrip ==
    (phase \in {"done", "panicked"} /\ Len(cuts) = 1 /\ Len(feeds) <= 1)
        => (phase = "done" /\ decSink = original)

(***************************************************************************)
(* Specification SpecConditional: ConditionalRleEncoder and                *)
(* ConditionalRleDecoder built by with_order_with_bitlength with the same  *)
(* order and bit length; the decoder is handed the encoder's batches.      *)
(***************************************************************************)
MaxOrder == 1

MaxConditionalLen == 3

ConditionalBytes == {1, 2}

InitConditional ==
    /\ build \in Builds
    /\ IdleProb
    /\ IdleStream
    /\ \E order \in 0..MaxOrder, length \in MinBitLength..MaxBitLength :
        /\ enc = ConditionalEncNew(order, length)
        /\ dec = ConditionalDecNew(order, length)
    /\ original = <<>>
    /\ cuts = <<>>
    /\ encSink = <<>>
    /\ feeds = <<>>
    /\ decSink = <<>>
    /\ phase = "encoding"

ConditionalEncodeBatch ==
    /\ phase = "encoding"
    /\ Len(cuts) < MaxEncCalls
    /\ \E chunk \in SeqsUpTo(ConditionalBytes, MaxConditionalLen - Len(original)) :
        EncStep(chunk, ConditionalEncProcess(enc, chunk, encSink))
    /\ UNCHANGED <<build, probVars, streamVars>>

ConditionalEncodeFinish ==
    /\ phase = "encoding"
    /\ cuts # <<>>
    /\ EncEnd(ConditionalEncFinish(enc, encSink))
    /\ UNCHANGED <<build, probVars, streamVars>>

\* the decoder's process call k receives the output of the encoder's call k
ConditionalDecodeBatch ==
    /\ phase = "decoding"
    /\ Len(feeds) < Len(cuts)
    /\ LET n == cuts[Len(feeds) + 1]
       IN  DecStep(n, ConditionalDecProcess(dec, DecChunk(n), decSink))
    /\ UNCHANGED <<build, probVars, streamVars>>

ConditionalDecodeFinish ==
    /\ phase = "decoding"
    /\ feeds = cuts
    /\ DecEnd(ConditionalDecFinish(dec, decSink))
    /\ UNCHANGED <<build, probVars, streamVars>>

NextConditional ==
    \/ ConditionalEncodeBatch
    \/ ConditionalEncodeFinish
    \/ ConditionalDecodeBatch
    \/ ConditionalDecodeFinish

SpecConditional == InitConditional /\ [][NextConditional]_vars

\* the decoder has been handed the encoder's first batches, split at the
\* encoder's offsets (every batch carries one output byte per input byte)
SameOffsets ==
    /\ feeds # <<>>
    /\ Len(feeds) <= Len(cuts)
    /\ feeds = SubSeq(cuts, 1, Len(feeds))

\* batch k (1-based) of a byte string cut at the encoder's offsets
Batch(bytes, k) ==
    LET start == SumSeq(SubSeq(cuts, 1, k - 1))
    IN  SubSeq(bytes, start + 1, Min(start + cuts[k], Len(bytes)))

\* the context vector v of ConditionalRleDecoder::process before it decodes
\* position i (1-based) of a batch whose decoded symbols are `decodedBatch`
RECURSIVE DecContextAt(_, _, _)
DecContextAt(order, decodedBatch, i) ==
    IF i = 1 THEN <<>>
    ELSE DecContextAfter(order, DecContextAt(order, decodedBatch, i - 1),
                         i - 1, decodedBatch[i - 1])

\* C3: with the 8-bit code table and any order, a decoder of the same order
\* whose process calls receive the encoded bytes split at the encoder's
\* offsets reproduces the encoder's input exactly, batch after batch.
ConditionalRoundTrip ==
    (CodeBitLength(enc.code_table) = MaxBitLength /\ SameOffsets)
        => (phase # "panicked" /\ decSink = SubSeq(original, 1, Fed))

ConditionalRoundTripWitness ==
    /\ CodeBitLength(enc.code_table) = MaxBitLength
    /\ enc.order >= 1
    /\ phase = "done"
    /\ feeds = cuts
    /\ Len(cuts) = 2
    /\ cuts[2] > enc.order
    /\ encSink # original
    /\ decSink = original

\* C4: for every order and every bit width 1..8, once the decoder has processed
\* the encoded batches that correspond to the encoder's batches it has not
\* failed, it used at every symbol position the context the encoder used, and
\* after the last batch its per-context map is identical to the encoder's.
ConditionalLockstep ==
    SameOffsets =>
        /\ phase # "panicked"
        /\ Len(decSink) = Fed
        /\ \A k \in 1..Len(feeds) : \A i \in 1..cuts[k] :
            DecContextAt(dec.order, Batch(decSink, k), i)
                = WindowContext(enc.order, Batch(original, k), i)
        /\ (feeds = cuts => dec.tables = enc.ctx_tables)

(***************************************************************************)
(* Specification SpecStream: one run of Stream::consume (core/stream.rs,   *)
(* and the copy in core.rs) over a finite source, with any of the crate's  *)
(* processors in its default state.  fill_buf may return any non-empty     *)
(* part of what is left of the source; the reader, the writer and the      *)
(* flush may fail.                                                         *)
(***************************************************************************)
MaxStreamLen == 3

StreamBytes == {1, 2}

StreamDrivers == {"core/stream.rs", "core.rs"}

Ok(n) == <<"Ok", n>>
Err(where) == <<"Err", where>>

Event(op, arg) == [op |-> op, arg |-> arg]

\* what a call appended to the accumulator
Appended(before, after) == SubSeq(after, Len(before) + 1, Len(after))

InitStream ==
    /\ build \in Builds
    /\ IdleProb
    /\ IdleCodec
    /\ driver \in StreamDrivers
    /\ \E source \in SeqsUpTo(StreamBytes, MaxStreamLen) :
        reader = [source |-> source, pos |-> 0]
    /\ writer = [bytes |-> <<>>, flushed |-> 0]
    /\ \E kind \in ProcessorKinds :
        processor = [kind |-> kind, p |-> ProcessorDefault(kind)]
    /\ buffer = <<>>
    /\ consumed = 0
    /\ filled = <<>>
    /\ pc = "fill_buf"
    /\ result = None
    /\ log = <<>>

\* the chunks BufRead::fill_buf may return: empty only at the end of the source
FillLengths ==
    LET left == Len(reader.source) - reader.pos
    IN  IF left = 0 THEN {0} ELSE 1..left

\* consumed += length
MutConsumedCountsChunks(c, length) == c + 1

Consumed(c, length) == c + length

\* if length > 0 { process ... } else { finish ... }
MutFinishAfterFirstFill(length) == "finish"

AfterFill(length) == IF length > 0 THEN "process" ELSE "finish"

\* self.buffer.clear()
Cleared(buf) == <<>>

\* the ? operator on a call made at position `at` that returned Err: consume
\* returns the error
MutRetry(at) == at

OnError(at) == "failed"

\* the outcomes of handing buf to the writer.  core/stream.rs calls write_all:
\* all of buf is written, or the call fails after a shorter prefix.  core.rs
\* calls write: the writer takes any prefix of buf and reports success, or fails
\* having taken nothing.
WriteOutcomes(buf) ==
    IF driver = "core/stream.rs"
    THEN {[taken |-> buf, ok |-> TRUE]}
            \cup {[taken |-> SubSeq(buf, 1, n), ok |-> FALSE] : n \in 0..(Len(buf) - 1)}
    ELSE {[taken |-> SubSeq(buf, 1, n), ok |-> TRUE] : n \in 0..Len(buf)}
            \cup {[taken |-> <<>>, ok |-> FALSE]}

\* self.writer.write_all(&self.buffer)? (core.rs: self.writer.write), then on
\* to position `next`
WriteBuffer(next) ==
    \E out \in WriteOutcomes(buffer) :
        /\ writer' = [writer EXCEPT !.bytes = @ \o out.taken]
        /\ pc' = IF out.ok THEN next ELSE OnError(pc)
        /\ result' = IF out.ok THEN result ELSE Err("write")
        /\ log' = Append(log, Event("write", out.taken))

\* let data = self.reader.fill_buf()?; let length = data.len(); consumed += length
FillBuf ==
    /\ pc = "fill_buf"
    /\ \/ \E length \in FillLengths :
            /\ filled' = SubSeq(reader.source, reader.pos + 1, reader.pos + length)
            /\ consumed' = Consumed(consumed, length)
            /\ pc' = AfterFill(length)
            /\ log' = Append(log, Event("fill_buf", filled'))
            /\ UNCHANGED result
       \/ /\ pc' = OnError(pc)
          /\ result' = Err("fill_buf")
          /\ UNCHANGED <<filled, consumed, log>>
    /\ UNCHANGED <<build, probVars, codecVars, driver, reader, writer, processor, buffer>>

\* self.processor.process(data, &mut self.buffer)?  The processors of the crate
\* return Ok or panic; the second disjunct is the Err a Process implementation
\* may return (IOResult<usize>).
ProcessChunk ==
    /\ pc = "process"
    /\ \/ LET r == Process(processor.kind, processor.p, filled, buffer)
          IN  /\ processor' = [processor EXCEPT !.p = r.p]
              /\ buffer' = r.sink
              /\ pc' = IF r.panic THEN "panicked" ELSE "write"
              /\ log' = Append(log, Event("process", Appended(buffer, r.sink)))
              /\ UNCHANGED result
       \/ /\ pc' = OnError(pc)
          /\ result' = Err("process")
          /\ UNCHANGED <<processor, buffer, log>>
    /\ UNCHANGED <<build, probVars, codecVars, driver, reader, writer, consumed, filled>>

WriteChunk ==
    /\ pc = "write"
    /\ WriteBuffer("consume")
    /\ UNCHANGED <<build, probVars, codecVars, driver, reader, processor, buffer, consumed, filled>>

\* self.reader.consume(length): the reader's position moves past the chunk
MutConsumeNothing(pos, length) == pos

Advance(pos, length) == pos + length

\* self.reader.consume(length); self.buffer.clear()
ConsumeChunk ==
    /\ pc = "consume"
    /\ reader' = [reader EXCEPT !.pos = Advance(@, Len(filled))]
    /\ buffer' = Cleared(buffer)
    /\ pc' = "fill_buf"
    /\ log' = Append(log, Event("consume", filled))
    /\ UNCHANGED <<build, probVars, codecVars, driver, writer, processor, consumed, filled, result>>

\* self.processor.finish(&mut self.buffer)?
FinishProcessor ==
    /\ pc = "finish"
    /\ \/ LET r == Finish(processor.kind, processor.p, buffer)
          IN  /\ processor' = [processor EXCEPT !.p = r.p]
              /\ buffer' = r.sink
              /\ pc' = IF r.panic THEN "panicked" ELSE "write_finish"
              /\ log' = Append(log, Event("finish", Appended(buffer, r.sink)))
              /\ UNCHANGED result
       \/ /\ pc' = OnError(pc)
          /\ result' = Err("finish")
          /\ UNCHANGED <<processor, buffer, log>>
    /\ UNCHANGED <<build, probVars, codecVars, driver, reader, writer, consumed, filled>>

WriteFinish ==
    /\ pc = "write_finish"
    /\ WriteBuffer("flush")
    /\ UNCHANGED <<build, probVars, codecVars, driver, reader, processor, buffer, consumed, filled>>

\* self.writer.flush()?; break; Ok(consumed)
Flush ==
    /\ pc = "flush"
    /\ \/ /\ writer' = [writer EXCEPT !.flushed = Len(writer.bytes)]
          /\ pc' = "returned"
          /\ result' = Ok(consumed)
          /\ log' = Append(log, Event("flush", <<>>))
       \/ /\ pc' = OnError(pc)
          /\ result' = Err("flush")
          /\ UNCHANGED <<writer, log>>
    /\ UNCHANGED <<build, probVars, codecVars, driver, reader, processor, buffer, consumed, filled>>

NextStream ==
    \/ FillBuf
    \/ ProcessChunk
    \/ WriteChunk
    \/ ConsumeChunk
    \/ FinishProcessor
    \/ WriteFinish
    \/ Flush

SpecStream == InitStream /\ [][NextStream]_vars

\* the positions of consume, and those at which it is still running
StreamPcs ==
    {"fill_buf", "process", "write", "consume", "finish", "write_finish", "flush",
     "returned", "failed", "panicked"}

Running == pc \notin {"returned", "failed", "panicked"}

\* consume is sequential code that keeps executing: while it is running, a step
\* of the loop is possible at every position and every step changes the
\* position, so the position eventually changes.  The fairness is stated on the
\* position alone; [][NextStream]_vars decides what the step does.
FairStream == SpecStream /\ WF_pc(Running /\ pc' \in StreamPcs)

\* the positions of the log at which `op` was called
Calls(op) == {i \in DOMAIN log : log[i].op = op}

\* the bytes process and finish appended, in call order
RECURSIVE Outputs(_)
Outputs(l) ==
    IF l = <<>> THEN <<>>
    ELSE (IF Head(l).op \in {"process", "finish"} THEN Head(l).arg ELSE <<>>)
            \o Outputs(Tail(l))

\* one process call on the whole source followed by finish, on a processor in
\* its default state
SingleCall(kind, source) ==
    LET r == Process(kind, ProcessorDefault(kind), source, <<>>)
    IN  IF r.panic THEN r ELSE Finish(kind, r.p, r.sink)

\* C7: for every processor and every finite source, what Stream::consume
\* (core/stream.rs) writes to the sink does not depend on how fill_buf splits
\* the source: it is the output of one process call on the whole source followed
\* by finish.
ChunkingIndependent ==
    (driver = "core/stream.rs" /\ pc \in {"returned", "panicked"})
        => LET whole == SingleCall(processor.kind, reader.source)
           IN  IF pc = "returned"
               THEN ~whole.panic /\ writer.bytes = whole.sink
               ELSE whole.panic

\* C8: in every successful run of Stream::consume, finish is called exactly
\* once, right after fill_buf returned an empty chunk and after every process
\* call; its output is handed to the writer (core/stream.rs: written in full)
\* and the sink is flushed after that write, and the run ends there.  In no run
\* does a process call follow finish.
FinishOnceAtEnd ==
    /\ \A i \in Calls("finish"), j \in Calls("process") : j < i
    /\ Cardinality(Calls("finish")) <= 1
    /\ pc = "returned" =>
        \E i \in Calls("finish") :
            /\ i > 1
            /\ log[i - 1] = Event("fill_buf", <<>>)
            /\ Len(log) = i + 2
            /\ log[i + 1].op = "write"
            /\ (driver = "core/stream.rs" => log[i + 1].arg = log[i].arg)
            /\ log[i + 2] = Event("flush", <<>>)
            /\ writer.flushed = Len(writer.bytes)

\* C8 witness: a successful run of core/stream.rs with two process calls whose
\* finish emitted bytes that reached the flushed sink.
FinishOnceWitness ==
    /\ driver = "core/stream.rs"
    /\ pc = "returned"
    /\ Cardinality(Calls("process")) = 2
    /\ \E i \in Calls("finish") : log[i].arg # <<>>
    /\ writer.flushed = Len(writer.bytes)
    /\ writer.bytes # <<>>

\* C9: after a successful Stream::consume the sink holds exactly the outputs of
\* the process calls and of finish, in call order: every output is written in
\* full right after the call that produced it, before the next chunk is read,
\* and nothing is dropped, reordered or written twice.
SinkIsConcatenation ==
    pc = "returned" =>
        /\ writer.bytes = Outputs(log)
        /\ \A i \in Calls("process") \cup Calls("finish") :
            log[i + 1] = Event("write", log[i].arg)

\* C10: Stream::consume returns the total number of bytes read from the source,
\* the sum of the lengths of the chunks fill_buf returned, whatever the
\* processor emitted.
ReturnsBytesRead ==
    pc = "returned" =>
        /\ result = Ok(SumSeq([i \in DOMAIN log |->
                        IF log[i].op = "fill_buf" THEN Len(log[i].arg) ELSE 0]))
        /\ result = Ok(Len(reader.source))

\* C10 witness: a successful run over a source read in two chunks of different
\* lengths by a processor that emitted a different number of bytes.
ReturnsBytesReadWitness ==
    /\ pc = "returned"
    /\ Cardinality(Calls("process")) = 2
    /\ \E i, j \in Calls("fill_buf") : Len(log[i].arg) > Len(log[j].arg) /\ Len(log[j].arg) > 0
    /\ result = Ok(MaxStreamLen)
    /\ Len(Outputs(log)) # MaxStreamLen

\* the call consume makes at each of its positions
CallAt(at) ==
    CASE at = "fill_buf" -> "fill_buf"
      [] at = "process" -> "process"
      [] at \in {"write", "write_finish"} -> "write"
      [] at = "finish" -> "finish"
      [] at = "flush" -> "flush"

\* C11: when fill_buf, process, finish, a sink write or the flush returns an
\* error, consume returns that error at once; after it has returned an error it
\* reads no chunk, calls neither process nor finish, writes nothing and retries
\* nothing.
ErrorEndsRun ==
    [][/\ (result = None /\ result' # None /\ result'[1] = "Err")
            => (pc' = "failed" /\ result' = Err(CallAt(pc)))
       /\ (result # None /\ result[1] = "Err")
            => UNCHANGED <<reader, writer, processor, buffer, consumed, filled, log>>]_vars

\* C11 witness: process returned an error on the second chunk while part of the
\* source was still unread; finish was never called.
ErrorEndsRunWitness ==
    /\ pc = "failed"
    /\ result = Err("process")
    /\ Cardinality(Calls("fill_buf")) = 2
    /\ Cardinality(Calls("process")) = 1
    /\ reader.pos + Len(filled) < Len(reader.source)
    /\ Calls("finish") = {}

(***************************************************************************)
(* Run-length reference functions used by the claims about the Classic and *)
(* the Lossy codec.                                                        *)
(***************************************************************************)
\* the maximal runs of s, in order, as [sym, len]
\* the maximal runs of s[lo..hi]: the runs of the two halves, the run that
\* spans the middle joined
RECURSIVE RunsIn(_, _, _)
RunsIn(s, lo, hi) ==
    IF lo > hi THEN <<>>
    ELSE IF lo = hi THEN <<[sym |-> s[lo], len |-> 1]>>
    ELSE LET mid == (lo + hi) \div 2
             l == RunsIn(s, lo, mid)
             r == RunsIn(s, mid + 1, hi)
         IN  IF l[Len(l)].sym = r[1].sym
             THEN SubSeq(l, 1, Len(l) - 1)
                    \o <<[sym |-> r[1].sym, len |-> l[Len(l)].len + r[1].len]>>
                    \o Tail(r)
             ELSE l \o r

RunsOf(s) == RunsIn(s, 1, Len(s))

\* per run: t copies and the count byte r - t when r >= t, else r copies
RECURSIVE ClassicRunsOutput(_, _)
ClassicRunsOutput(runs, t) ==
    IF runs = <<>> THEN <<>>
    ELSE LET r == Head(runs)
         IN  (IF r.len >= t THEN Repeat(r.sym, t) \o <<r.len - t>>
                            ELSE Repeat(r.sym, r.len))
                \o ClassicRunsOutput(Tail(runs), t)

\* C12: for every input and threshold t > 1, the complete output of
\* RleClassicEncoder (process calls, then finish) is the concatenation over the
\* maximal runs of the input of t copies followed by the count byte r - t when
\* the run length r >= t, and of r copies without a count byte when r < t.
ClassicOutputByRuns ==
    (phase = "decoding" /\ feeds = <<>>)
        => encSink = ClassicRunsOutput(RunsOf(original), enc.max_threshold)

\* C12 witness: a finished encoding, fed in two calls, of an input with a run
\* longer than the threshold and a run shorter than it.
ClassicOutputWitness ==
    /\ phase = "decoding"
    /\ Len(cuts) = 2
    /\ cuts[1] > 0
    /\ cuts[2] > 0
    /\ \E i, j \in DOMAIN RunsOf(original) :
        /\ RunsOf(original)[i].len > enc.max_threshold
        /\ RunsOf(original)[j].len < enc.max_threshold
    /\ encSink # original

(***************************************************************************)
(* Specification SpecLossy: LossyRleEncoder (new or with_threshold) and    *)
(* LossyRleDecoder::new.  Besides the short inputs the encoder may be      *)
(* handed one run of U8Mod + 1 equal bytes as its first chunk, the         *)
(* shortest run whose length does not fit the count byte.                  *)
(***************************************************************************)
LossyBytes == {0, 1, 2}

LossyLongRun == U8Mod + 1

\* the part of the input that was not fed as the long run
LossyShortFed ==
    IF Len(original) >= LossyLongRun THEN Len(original) - LossyLongRun ELSE Len(original)

LossyChunks ==
    SeqsUpTo(LossyBytes, MaxSourceLen - LossyShortFed)
        \cup (IF cuts = <<>> THEN {Repeat(b, LossyLongRun) : b \in LossyBytes} ELSE {})

InitLossy ==
    /\ build \in Builds
    /\ IdleProb
    /\ IdleStream
    /\ \E t \in LOSSY_RLE_THRESHOLD..MaxThreshold : enc = LossyEncNew(t)
    /\ dec = LossyDecNew
    /\ original = <<>>
    /\ cuts = <<>>
    /\ encSink = <<>>
    /\ feeds = <<>>
    /\ decSink = <<>>
    /\ phase = "encoding"

LossyEncode ==
    /\ phase = "encoding"
    /\ Len(cuts) < MaxEncCalls
    /\ \E chunk \in LossyChunks :
        EncStep(chunk, LossyEncProcess(enc, chunk, encSink))
    /\ UNCHANGED <<build, probVars, streamVars>>

LossyEncodeFinish ==
    /\ phase = "encoding"
    /\ cuts # <<>>
    /\ EncEnd(LossyEncFinish(enc, encSink))
    /\ UNCHANGED <<build, probVars, streamVars>>

LossyDecode ==
    /\ phase = "decoding"
    /\ Len(feeds) < MaxDecCalls
    /\ \E n \in DecChunkLens :
        DecStep(n, LossyDecProcess(dec, DecChunk(n), decSink))
    /\ UNCHANGED <<build, probVars, streamVars>>

LossyDecodeFinish ==
    /\ phase = "decoding"
    /\ Fed = Len(encSink)
    /\ feeds # <<>>
    /\ DecEnd(LossyDecFinish(dec, decSink))
    /\ UNCHANGED <<build, probVars, streamVars>>

NextLossy ==
    \/ LossyEncode
    \/ LossyEncodeFinish
    \/ LossyDecode
    \/ LossyDecodeFinish

SpecLossy == InitLossy /\ [][NextLossy]_vars

\* the input in which every run shorter than t that is not the last run is
\* replaced by as many copies of the symbol of the next emitted run
RECURSIVE LossyImage(_, _)
LossyImage(runs, t) ==
    IF runs = <<>> THEN <<>>
    ELSE LET r == Head(runs)
             rest == LossyImage(Tail(runs), t)
         IN  IF Len(runs) = 1 \/ r.len >= t
             THEN Repeat(r.sym, r.len) \o rest
             ELSE Repeat(rest[1], r.len) \o rest

\* C13: decoding the complete output of the lossy encoder gives the input in
\* which every maximal run shorter than the threshold that is not the final run
\* is replaced by the same number of copies of the symbol of the next emitted
\* run, all other runs unchanged; the result is as long as the input.
LossyRoundTrip ==
    phase \in {"done", "panicked"}
        => /\ phase = "done"
           /\ decSink = LossyImage(RunsOf(original), enc.threshold)
           /\ Len(decSink) = Len(original)

\* the pairs (symbol, merged length - 1) of the emitted runs; loss is the
\* length of the short runs not emitted since the last pair
RECURSIVE LossyPairs(_, _, _)
LossyPairs(runs, t, loss) ==
    IF runs = <<>> THEN <<>>
    ELSE LET r == Head(runs)
         IN  IF Len(runs) = 1 \/ r.len >= t
             THEN <<r.sym, r.len + loss - 1>> \o LossyPairs(Tail(runs), t, 0)
             ELSE LossyPairs(Tail(runs), t, loss + r.len)

\* C14: the complete output of the lossy encoder is a sequence of pairs
\* (symbol, count byte): one pair for every run of length >= threshold and one
\* for the final run whatever its length, each count byte equal to the run's
\* length plus the lengths of the short runs skipped since the previous pair,
\* minus 1; loss_count is 0 after the emission.
LossyOutputPairs ==
    phase \in {"decoding", "done"}
        => /\ encSink = LossyPairs(RunsOf(original), enc.threshold, 0)
           /\ \A i \in DOMAIN encSink : encSink[i] \in Byte
           /\ enc.loss_count = 0

\* the 9 bytes the claim gives for a group of 8 bytes: per position the delta
\* byte or the raw byte, then the info byte with the first position in bit 7
TelemetryGroupImage(group, last, t) ==
    LET prev(i) == IF i = 1 THEN last ELSE group[i - 1]
        diff(i) == Max(prev(i), group[i]) - Min(prev(i), group[i])
        raw(i) == diff(i) > t
        RECURSIVE info(_)
        info(i) == IF i > TelemetryGroup THEN 0
                   ELSE (IF raw(i) THEN Pow2(TelemetryGroup - i) ELSE 0) + info(i + 1)
    IN  [i \in 1..TelemetryDecGroup |->
            IF i = TelemetryDecGroup THEN info(1)
            ELSE IF raw(i) THEN group[i]
            ELSE IF group[i] >= prev(i) THEN TelemetryMid + diff(i)
            ELSE TelemetryMid - diff(i)]

\* C15: for each complete group of 8 bytes of a process call the telemetry
\* encoder emits 9 bytes: per position 128 + diff or 128 - diff when the
\* difference to the previous byte (0 at the start, carried across groups) is
\* within the threshold, the raw byte otherwise, and then the info byte whose
\* bit 7 - i is set exactly when position i was emitted raw.  Stated for the
\* groups of the first process call.
TelemetryGroupsEncoded ==
    cuts # <<>> =>
        \A g \in 1..(cuts[1] \div TelemetryGroup) :
            /\ Len(encSink) >= TelemetryDecGroup * g
            /\ SubSeq(encSink, TelemetryDecGroup * (g - 1) + 1, TelemetryDecGroup * g)
                 = TelemetryGroupImage(
                       SubSeq(original, TelemetryGroup * (g - 1) + 1, TelemetryGroup * g),
                       IF g = 1 THEN 0 ELSE original[TelemetryGroup * (g - 1)],
                       enc.max_threshold)

\* C16: on a freshly constructed conditional encoder, of any order and bit
\* length, the first process call emits its input unchanged: every symbol of
\* the call is encoded against the (empty) tables the call began with.
FirstBatchIdentity ==
    cuts # <<>> => SubSeq(encSink, 1, cuts[1]) = SubSeq(original, 1, cuts[1])

\* C16 witness: an order-1 encoder whose first call held a repeated symbol and
\* was emitted unchanged, while its second call was not.
FirstBatchIdentityWitness ==
    /\ enc.order = 1
    /\ Len(cuts) = 2
    /\ cuts[1] = 2
    /\ original[1] = original[2]
    /\ SubSeq(encSink, 1, 2) = SubSeq(original, 1, 2)
    /\ encSink # original

(***************************************************************************)
(* Specification SpecAdler: an Adler32 processor fed chunk after chunk,    *)
(* then finished.  enc holds the processor, original the bytes fed so far. *)
(***************************************************************************)
MaxAdlerCalls == 3
MaxAdlerRun == 8

AdlerBytes == {1, 255}

\* "Wikipedia"
AdlerText == <<87, 105, 107, 105, 112, 101, 100, 105, 97>>

AdlerChunks == SeqsUpTo(AdlerBytes, 2) \cup {Repeat(U8Max, MaxAdlerRun), AdlerText}

InitAdler ==
    /\ build \in Builds
    /\ IdleProb
    /\ IdleStream
    /\ enc = Adler32New
    /\ dec = None
    /\ original = <<>>
    /\ cuts = <<>>
    /\ encSink = <<>>
    /\ feeds = <<>>
    /\ decSink = <<>>
    /\ phase = "processing"

AdlerProcess ==
    /\ phase = "processing"
    /\ Len(cuts) < MaxAdlerCalls
    /\ \E chunk \in AdlerChunks :
        LET r == Adler32Process(enc, chunk, encSink)
        IN  /\ enc' = r.p
            /\ encSink' = r.sink
            /\ original' = original \o chunk
            /\ cuts' = Append(cuts, Len(chunk))
            /\ phase' = IF r.panic THEN "panicked" ELSE phase
    /\ UNCHANGED <<build, dec, feeds, decSink, probVars, streamVars>>

AdlerFinish ==
    /\ phase = "processing"
    /\ LET r == Adler32Finish(enc, encSink)
       IN  /\ enc' = r.p
           /\ encSink' = r.sink
           /\ phase' = "finished"
    /\ UNCHANGED <<build, dec, original, cuts, feeds, decSink, probVars, streamVars>>

NextAdler ==
    \/ AdlerProcess
    \/ AdlerFinish

SpecAdler == InitAdler /\ [][NextAdler]_vars

\* the state the claim gives after the bytes s: from (1, 0), per byte
\* a = a + (c mod 65535) and b = b + (a mod 65535), both wrapping at 16 bits
RECURSIVE AdlerWrapping(_)
AdlerWrapping(s) ==
    IF s = <<>> THEN [a |-> 1, b |-> 0]
    ELSE LET q == AdlerWrapping(SubSeq(s, 1, Len(s) - 1))
             a == (q.a + (s[Len(s)] % 65535)) % 65536
         IN  [a |-> a, b |-> (q.b + (a % 65535)) % 65536]

\* C17: for any bytes fed to Adler32 in any chunking, processing never fails and
\* the state is the one reached from (1, 0) by a = a + (c mod 65535) and
\* b = b + (a mod 65535) per byte with wrapping 16-bit additions; checksum() is
\* (b << 16) | a, 0x11E60398 (high half 0x11E6, low half 0x0398) for "Wikipedia".
AdlerNeverFails ==
    /\ phase # "panicked"
    /\ enc = AdlerWrapping(original)
    /\ Adler32Checksum(enc) = [high |-> enc.b, low |-> enc.a]
    /\ original = AdlerText => Adler32Checksum(enc) = [high |-> 4582, low |-> 920]

\* the standard Adler-32 checksum: both sums reduced modulo 65521
RECURSIVE StandardAdler(_)
StandardAdler(s) ==
    IF s = <<>> THEN [a |-> 1, b |-> 0]
    ELSE LET q == StandardAdler(SubSeq(s, 1, Len(s) - 1))
             a == (q.a + s[Len(s)]) % 65521
         IN  [a |-> a, b |-> (q.b + a) % 65521]

\* C18: for every byte sequence the checksum of Adler32 after processing it is
\* the standard Adler-32 checksum of the sequence.
AdlerIsStandard ==
    phase # "panicked"
        => Adler32Checksum(enc)
             = [high |-> StandardAdler(original).b, low |-> StandardAdler(original).a]

\* "CRC32<0x", the head of Display for CRC32
CRC32DisplayHead == <<67, 82, 67, 51, 50, 60, 48, 120>>

\* C19: for Adler32 and CRC32, process appends nothing to the output and finish
\* appends the formatted checksum text, algorithm name and hexadecimal digest,
\* so that a stream driven with a checksum processor has written that text to
\* the sink when consume returns.
ChecksumEmitted ==
    processor.kind \in {"Adler32", "CRC32"} =>
        LET text(out) ==
                IF processor.kind = "Adler32" THEN out = Adler32Display(processor.p)
                ELSE /\ Len(out) = Len(CRC32DisplayHead) + 9
                     /\ SubSeq(out, 1, Len(CRC32DisplayHead)) = CRC32DisplayHead
        IN  /\ \A i \in Calls("process") : log[i].arg = <<>>
            /\ \A i \in Calls("finish") : text(log[i].arg)
            /\ (pc = "returned" /\ driver = "core/stream.rs") => text(writer.bytes)

(***************************************************************************)
(* Specification SpecProcess: a freshly constructed processor driven       *)
(* directly through the Process trait: process calls on chunks, the empty  *)
(* chunk included, then finish.  buffer is the sink handed to the calls,   *)
(* filled the last chunk, consumed the number of bytes handed over so far. *)
(***************************************************************************)
MaxProcessCalls == 2

\* the states the constructors of a processor give
FreshProcessors(kind) ==
    CASE kind \in {"RleClassicEncoder", "RleClassicDecoder"} ->
            {ClassicNew(t) : t \in CLASSIC_RLE_THRESHOLD..MaxThreshold}
      [] kind = "LossyRleEncoder" ->
            {LossyEncNew(t) : t \in LOSSY_RLE_THRESHOLD..MaxThreshold}
      [] kind = "TelemetryRleEncoder" ->
            {TelemetryEncNew(t) : t \in TelemetryThresholds}
      [] kind = "ConditionalRleEncoder" ->
            {ConditionalEncNew(order, MaxBitLength) : order \in 0..MaxOrder}
      [] kind = "ConditionalRleDecoder" ->
            {ConditionalDecNew(order, MaxBitLength) : order \in 0..MaxOrder}
      [] OTHER -> {ProcessorDefault(kind)}

InitProcess ==
    /\ build \in Builds
    /\ IdleProb
    /\ IdleCodec
    /\ driver = "none"
    /\ reader = None
    /\ writer = None
    /\ \E kind \in ProcessorKinds :
        \E p \in FreshProcessors(kind) : processor = [kind |-> kind, p |-> p]
    /\ buffer = <<>>
    /\ consumed = 0
    /\ filled = <<>>
    /\ pc = "call"
    /\ result = None
    /\ log = <<>>

CallProcess ==
    /\ pc = "call"
    /\ Cardinality(Calls("process")) < MaxProcessCalls
    /\ \E chunk \in SeqsUpTo(StreamBytes, MaxStreamLen - consumed) :
        LET r == Process(processor.kind, processor.p, chunk, buffer)
        IN  /\ processor' = [processor EXCEPT !.p = r.p]
            /\ buffer' = r.sink
            /\ consumed' = consumed + Len(chunk)
            /\ filled' = chunk
            /\ pc' = IF r.panic THEN "panicked" ELSE pc
            /\ log' = Append(log, Event("process", Appended(buffer, r.sink)))
    /\ UNCHANGED <<build, probVars, codecVars, driver, reader, writer, result>>

CallFinish ==
    /\ pc = "call"
    /\ LET r == Finish(processor.kind, processor.p, buffer)
       IN  /\ processor' = [processor EXCEPT !.p = r.p]
           /\ buffer' = r.sink
           /\ pc' = IF r.panic THEN "panicked" ELSE "finished"
           /\ log' = Append(log, Event("finish", Appended(buffer, r.sink)))
    /\ UNCHANGED <<build, probVars, codecVars, driver, reader, writer, consumed, filled,
                   result>>

NextProcess ==
    \/ CallProcess
    \/ CallFinish

SpecProcess == InitProcess /\ [][NextProcess]_vars

\* C20: for every codec in its freshly constructed state (the Classic, Lossy,
\* Telemetry and Conditional encoders and decoders, and Duplicate), process on
\* an empty chunk appends nothing to the output, and the finish that follows
\* appends nothing; neither call fails.
EmptyInEmptyOut ==
    (processor.kind \notin {"Adler32", "CRC32"} /\ consumed = 0)
        => /\ pc # "panicked"
           /\ buffer = <<>>
           /\ \A i \in DOMAIN log : log[i].arg = <<>>

\* C20 witness: the telemetry encoder after process on an empty chunk and finish.
EmptyInEmptyOutWitness ==
    /\ processor.kind = "TelemetryRleEncoder"
    /\ pc = "finished"
    /\ consumed = 0
    /\ Len(log) = 2
    /\ log[1].op = "process"
    /\ log[2].op = "finish"
    /\ buffer = <<>>

(***************************************************************************)
(* Specification SpecConfig: a processor is constructed from an argument   *)
(* the caller chose (sqsh-cli passes the command line's numbers straight   *)
(* to the constructors), then driven through the Process trait, reset or   *)
(* converted with From.  log[1] records the constructor call.              *)
(***************************************************************************)
\* RleClassicEncoder / RleClassicDecoder::with_threshold: None when the
\* assertion fails
MutAcceptsAnyThreshold(max_threshold) == Some(ClassicNew(max_threshold))

ClassicWithThreshold(max_threshold) ==
    IF max_threshold > 1 THEN Some(ClassicNew(max_threshold)) ELSE None

\* LossyRleEncoder::with_threshold
LossyWithThreshold(threshold) ==
    IF threshold > 1 THEN Some(LossyEncNew(threshold)) ELSE None

\* TelemetryRleEncoder::with_threshold
TelemetryWithThreshold(threshold) ==
    IF threshold <= TelemetryMid THEN Some(TelemetryEncNew(threshold)) ELSE None

\* ConditionalRleEncoder / ConditionalRleDecoder::with_order_with_bitlength
ConditionalWithBitlength(kind, order, length) ==
    IF length > 0 /\ length <= MaxBitLength
    THEN Some(IF kind = "ConditionalRleEncoder" THEN ConditionalEncNew(order, length)
              ELSE ConditionalDecNew(order, length))
    ELSE None

\* the arguments a caller may hand to the constructor of a processor
ConfigArgs(kind) ==
    CASE kind \in {"RleClassicEncoder", "RleClassicDecoder", "LossyRleEncoder"} ->
            0..MaxThreshold
      [] kind = "TelemetryRleEncoder" ->
            {TELEMETRY_RLE_MAX_THRESHOLD, TelemetryMid, TelemetryMid + 1, U8Max}
      [] kind \in {"ConditionalRleEncoder", "ConditionalRleDecoder"} ->
            (0..MaxOrder) \X {MinBitLength - 1, MinBitLength, MaxBitLength, MaxBitLength + 1}

ConfigKinds ==
    {"RleClassicEncoder", "RleClassicDecoder", "LossyRleEncoder", "TelemetryRleEncoder",
     "ConditionalRleEncoder", "ConditionalRleDecoder"}

\* the constructor call of sqsh-cli for a processor kind
Constructed(kind, arg) ==
    CASE kind \in {"RleClassicEncoder", "RleClassicDecoder"} -> ClassicWithThreshold(arg)
      [] kind = "LossyRleEncoder" -> LossyWithThreshold(arg)
      [] kind = "TelemetryRleEncoder" -> TelemetryWithThreshold(arg)
      [] kind \in {"ConditionalRleEncoder", "ConditionalRleDecoder"} ->
            ConditionalWithBitlength(kind, arg[1], arg[2])

InitConfig ==
    /\ build \in Builds
    /\ IdleProb
    /\ IdleCodec
    /\ driver = "none"
    /\ reader = None
    /\ writer = None
    /\ processor = None
    /\ buffer = <<>>
    /\ consumed = 0
    /\ filled = <<>>
    /\ pc = "new"
    /\ result = None
    /\ log = <<>>

\* the constructor either returns the processor or panics on its assertion
Construct ==
    /\ pc = "new"
    /\ \E kind \in ConfigKinds :
        \E arg \in ConfigArgs(kind) :
            LET made == Constructed(kind, arg)
            IN  /\ processor' = IF made = None THEN None
                                ELSE [kind |-> kind, p |-> Unwrap(made)]
                /\ pc' = IF made = None THEN "panicked" ELSE "call"
                /\ log' = <<Event("new", [kind |-> kind, arg |-> arg])>>
    /\ UNCHANGED <<build, probVars, codecVars, driver, reader, writer, buffer, consumed,
                   filled, result>>

\* pub fn reset of the Classic encoder and decoder
ResetProcessor ==
    /\ pc \in {"call", "finished"}
    /\ processor.kind \in {"RleClassicEncoder", "RleClassicDecoder"}
    /\ Calls("reset") = {}
    /\ processor' = [processor EXCEPT !.p = ClassicReset(@)]
    /\ log' = Append(log, Event("reset", <<>>))
    /\ UNCHANGED <<build, probVars, codecVars, driver, reader, writer, buffer, consumed,
                   filled, pc, result>>

\* From<RleClassicEncoder> for RleClassicDecoder and back (with_threshold of the
\* source's max_threshold), From<LossyRleEncoder> for LossyRleDecoder
Convert ==
    /\ pc \in {"call", "finished"}
    /\ processor.kind \in {"RleClassicEncoder", "RleClassicDecoder", "LossyRleEncoder"}
    /\ Calls("from") = {}
    /\ LET made == IF processor.kind = "LossyRleEncoder" THEN Some(LossyDecNew)
                   ELSE ClassicWithThreshold(processor.p.max_threshold)
           kind == CASE processor.kind = "RleClassicEncoder" -> "RleClassicDecoder"
                     [] processor.kind = "RleClassicDecoder" -> "RleClassicEncoder"
                     [] processor.kind = "LossyRleEncoder" -> "LossyRleDecoder"
       IN  /\ processor' = IF made = None THEN processor
                           ELSE [kind |-> kind, p |-> Unwrap(made)]
           /\ pc' = IF made = None THEN "panicked" ELSE "call"
    /\ log' = Append(log, Event("from", <<>>))
    /\ UNCHANGED <<build, probVars, codecVars, driver, reader, writer, buffer, consumed,
                   filled, result>>

NextConfig ==
    \/ Construct
    \/ CallProcess
    \/ CallFinish
    \/ ResetProcessor
    \/ Convert

SpecConfig == InitConfig /\ [][NextConfig]_vars

\* the configurations the claim calls valid
ValidConfig(kind, arg) ==
    CASE kind \in {"RleClassicEncoder", "RleClassicDecoder", "LossyRleEncoder"} -> arg > 1
      [] kind = "TelemetryRleEncoder" -> arg <= 128
      [] kind \in {"ConditionalRleEncoder", "ConditionalRleDecoder"} -> arg[2] \in 1..8

\* C21: a constructor fails exactly on an invalid configuration (threshold <= 1
\* for the Classic codec and the Lossy encoder, threshold > 128 for the
\* Telemetry encoder, bit length outside 1..8 for the Conditional codec), and in
\* every reachable state of a Classic or Lossy codec, after process, finish,
\* reset or a From conversion, the threshold is > 1 and is the value given at
\* construction.
ConfigRejected ==
    log # <<>> =>
        /\ (processor = None) <=> ~ValidConfig(log[1].arg.kind, log[1].arg.arg)
        /\ (processor # None /\ processor.kind \in {"RleClassicEncoder", "RleClassicDecoder"})
              => (processor.p.max_threshold > 1
                    /\ processor.p.max_threshold = log[1].arg.arg)
        /\ (processor # None /\ processor.kind = "LossyRleEncoder")
              => (processor.p.threshold > 1 /\ processor.p.threshold = log[1].arg.arg)
        /\ (processor # None /\ processor.kind = "TelemetryRleEncoder")
              => processor.p.max_threshold <= 128
        /\ (processor # None /\ processor.kind = "ConditionalRleEncoder")
              => CodeBitLength(processor.p.code_table) \in 1..8
        /\ (processor # None /\ processor.kind = "ConditionalRleDecoder")
              => CodeBitLength(processor.p.code) \in 1..8

\* C21 witness: a decoder converted from an encoder built with threshold 3 that
\* has decoded a run and was reset.
ConfigRejectedWitness ==
    /\ log # <<>>
    /\ log[1].arg = [kind |-> "RleClassicEncoder", arg |-> 3]
    /\ processor # None
    /\ processor.kind = "RleClassicDecoder"
    /\ processor.p.max_threshold = 3
    /\ Calls("reset") # {}
    /\ Calls("from") # {}
    /\ Len(buffer) >= 3

\* C22: every count byte the classic encoder emits is repetition -
\* max_threshold and lies in 0..255; when a run longer than max_threshold + 255
\* is flushed, on a symbol change or at finish, the encoder fails on its
\* assertion and emits nothing for that run, never a wrapped or truncated count.
ClassicCountFits ==
    LET runs == RunsOf(original)
        t == enc.max_threshold
        TooLong(k) == runs[k].len > t + 255
    IN  /\ \A i \in DOMAIN encSink : encSink[i] \in 0..255
        /\ phase = "encoding" =>
              /\ \A k \in 1..(Len(runs) - 1) : ~TooLong(k)
              /\ encSink = ClassicRunsOutput(SubSeq(runs, 1, Len(runs) - 1), t)
        /\ (phase = "decoding" /\ feeds = <<>>) =>
              /\ \A k \in DOMAIN runs : ~TooLong(k)
              /\ encSink = ClassicRunsOutput(runs, t)
        /\ (phase = "panicked" /\ feeds = <<>>) =>
              \E k \in DOMAIN runs :
                  /\ TooLong(k)
                  /\ \A j \in 1..(k - 1) : ~TooLong(j)
                  /\ encSink = ClassicRunsOutput(SubSeq(runs, 1, k - 1), t)

\* C22 witness: the encoder failed on a run of max_threshold + 256 bytes after it
\* had emitted an earlier run.
ClassicCountFitsWitness ==
    /\ phase = "panicked"
    /\ feeds = <<>>
    /\ encSink # <<>>
    /\ \E k \in DOMAIN RunsOf(original) :
        RunsOf(original)[k].len = enc.max_threshold + 256

\* C23: every process call of the conditional encoder and of the conditional
\* decoder appends exactly as many bytes to its output as its chunk holds, for
\* every order and for chunks shorter than the order, and finish appends
\* nothing: after any number of calls each output is as long as the input fed.
ConditionalOneForOne ==
    /\ phase # "panicked"
    /\ Len(encSink) = Len(original)
    /\ Len(decSink) = Fed

\* the number of times val occurs in the sequence of inserted symbols
Occurrences(vals, val) == Cardinality({i \in DOMAIN vals : vals[i] = val})

\* C24: after any sequence of inserts, count(x) is the number of times x was
\* inserted (None for a symbol never inserted), members() is the number of
\* distinct inserted symbols, and a first insert of x leaves x with count 1.
CountIsOccurrences ==
    /\ \A val \in ProbVals :
        Count(table, val) = IF Occurrences(inserted, val) = 0
                            THEN None
                            ELSE Some(Occurrences(inserted, val))
    /\ Members(table) = Cardinality({inserted[i] : i \in DOMAIN inserted})
    /\ (lastInsert.done /\ Count(lastInsert.before, lastInsert.val) = None)
            => Count(table, lastInsert.val) = Some(1)

\* C24 witness: one symbol inserted three times, another never inserted, and
\* the last call was the first insert of a third symbol.
CountIsOccurrencesWitness ==
    /\ \E val \in ProbVals : Count(table, val) = Some(3)
    /\ \E val \in ProbVals : Count(table, val) = None
    /\ lastInsert.done
    /\ Count(lastInsert.before, lastInsert.val) = None
    /\ Members(table) = 2

DecRepetitionBounded == dec.repetition <= dec.max_threshold

ByteWiseKinds ==
    {"RleClassicEncoder", "RleClassicDecoder", "LossyRleEncoder", "LossyRleDecoder"}

\* two successive process calls on the parts source[1..n] and source[n+1..]
SplitCall(kind, p, source, n, sink) ==
    LET first == Process(kind, p, SubSeq(source, 1, n), sink)
    IN  IF first.panic THEN first
        ELSE Process(kind, first.p, SubSeq(source, n + 1, Len(source)), first.sink)

\* C27: for the Classic and the Lossy encoder and decoder, in whatever state
\* earlier calls left them, a process call on a chunk gives the same output and
\* the same codec state as two successive process calls on the two parts of the
\* chunk, for every split point; so any split of an input gives the output of
\* one call on the whole input, and a run that spans a boundary is one run.
ByteWiseSplitIndependent ==
    [][(/\ pc = "call"
        /\ processor.kind \in ByteWiseKinds
        /\ Len(log') = Len(log) + 1
        /\ log'[Len(log')].op = "process")
            => \A n \in 0..Len(filled') :
                LET parts == SplitCall(processor.kind, processor.p, filled', n, buffer)
                IN  /\ parts.sink = buffer'
                    /\ parts.p = processor'.p
                    /\ parts.panic = (pc' = "panicked")]_vars

\* C27 witness: a classic encoder with threshold 2 was handed three equal
\* bytes in two non-empty chunks; neither call wrote anything and finish wrote
\* the one run: two copies and the count 1.
ByteWiseSplitWitness ==
    /\ processor.kind = "RleClassicEncoder"
    /\ pc = "finished"
    /\ Cardinality(Calls("process")) = 2
    /\ consumed = 3
    /\ Len(filled) \in {1, 2}
    /\ \E b \in StreamBytes : buffer = <<b, b, 1>>
    /\ \A i \in Calls("process") : log[i].arg = <<>>

\* the number of symbols held by a telemetry stream of groups of up to 8
\* symbols, each followed by its info byte
EncodedSymbols(out) == Len(out) - ((Len(out) + TelemetryGroup) \div (TelemetryGroup + 1))

\* C28: over any sequence of process calls followed by finish the telemetry
\* encoder encodes every input byte, and the decoder every encoded symbol: the
\* bytes left over from a chunk are carried and emitted later, never dropped or
\* overwritten by the remainder of a later chunk.
TelemetryNothingDropped ==
    /\ phase \in {"decoding", "done"} => EncodedSymbols(encSink) = Len(original)
    /\ phase = "done" => Len(decSink) = EncodedSymbols(encSink)

\* C29: for a trailing partial group of k < 8 symbols the info byte written by
\* the encoder's finish carries the raw/delta flag of symbol i in the bit the
\* decoder's finish tests for symbol i (the top bit after i - 1 left shifts),
\* so every symbol of the group is decoded in the mode it was encoded in.
PartialGroupFlagsAgree ==
    (phase \in {"decoding", "done"} /\ Len(cuts) = 1 /\ enc.remainder # None)
        => LET data == Unwrap(enc.remainder)
               base == Len(original) - Len(data)
               infobyte == encSink[Len(encSink)]
               Prev(i) == IF base + i = 1 THEN 0 ELSE original[base + i - 1]
               Raw(i) == Max(Prev(i), data[i]) - Min(Prev(i), data[i]) > enc.max_threshold
           IN  \A i \in 1..Len(data) :
                TelemetryTopBit((infobyte * Pow2(i - 1)) % U8Mod) = Raw(i)

\* the contexts of the symbols of a stream: for each position the window of
\* the last `order` symbols before it, shorter only at the start of the stream
StreamContexts(order, symbols) ==
    {WindowContext(order, symbols, j) : j \in 1..Len(symbols)}

\* C30: the context the conditional encoder (and decoder) uses for a symbol is
\* the window of the last `order` true symbols the codec has processed, across
\* process calls: the contexts it holds a table for are the windows of the
\* whole stream, and the empty window occurs only at the start of the stream.
ContextSpansCalls ==
    phase # "panicked" =>
        /\ DOMAIN enc.ctx_tables = StreamContexts(enc.order, original)
        /\ DOMAIN dec.tables = StreamContexts(dec.order, decSink)

\* x has a strictly higher count than every other entry of table t
MostFrequent(t, x) ==
    /\ x \in DOMAIN t.hm
    /\ \A y \in DOMAIN t.hm : y # x => t.hm[y].count < t.hm[x].count

\* C31: in every process call of the conditional encoder, a symbol whose
\* context has a rank table before the call is emitted as the code table's
\* code of the symbol's rank in that table; with the 8-bit code table the most
\* frequent symbol of its context is emitted as 0.
EmitsCodeOfRank ==
    [][(phase = "encoding" /\ Len(cuts') = Len(cuts) + 1)
        => LET bytes == Appended(original, original')
               out == Appended(encSink, encSink')
           IN  \A i \in DOMAIN bytes :
                LET cx == WindowContext(enc.order, bytes, i)
                IN  cx \in DOMAIN enc.ctx_tables
                    => LET t == enc.ctx_tables[cx]
                           rank == Rank(t, bytes[i])
                           code == CodeEncode(enc.code_table, Unwrap(rank))
                       IN  /\ IsSome(rank)
                           /\ IsSome(code) => out[i] = Unwrap(code)
                           /\ (CodeBitLength(enc.code_table) = MaxBitLength
                                    /\ MostFrequent(t, bytes[i])) => out[i] = 0]_vars

\* C31 witness: an encoder of order 1 with the 8-bit table saw [2, 2] in its
\* first call and encoded the 2 of its second call, the most frequent symbol
\* of the empty context, as 0.
EmitsCodeOfRankWitness ==
    /\ enc.order = 1
    /\ CodeBitLength(enc.code_table) = MaxBitLength
    /\ cuts = <<2, 1>>
    /\ original = <<2, 2, 2>>
    /\ encSink = <<2, 2, 0>>

\* the sum of the counts of the byte values lo..hi in table t
RECURSIVE CountSum(_, _, _)
CountSum(t, lo, hi) ==
    IF lo > hi THEN 0
    ELSE IF lo = hi THEN t.hm[lo].count
    ELSE LET mid == (lo + hi) \div 2
         IN  CountSum(t, lo, mid) + CountSum(t, mid + 1, hi)

\* the positions of the first `calls` batches of symbols whose context is cx
ContextInserts(order, symbols, calls, cx) ==
    SumSeq([k \in 1..calls |->
        Cardinality({i \in 1..cuts[k] : WindowContext(order, Batch(symbols, k), i) = cx})])

\* every context observed in the first `calls` batches owns a table that holds
\* all 256 byte values and whose counts sum to 256 plus the context's inserts
FullTables(tables, order, symbols, calls) ==
    /\ DOMAIN tables = {cx \in UNION {{WindowContext(order, Batch(symbols, k), i) :
                                            i \in 1..cuts[k]} : k \in 1..calls} : TRUE}
    /\ \A cx \in DOMAIN tables :
        /\ DOMAIN tables[cx].hm = Byte
        /\ Members(tables[cx]) = U8Mod
        /\ CountSum(tables[cx], 0, U8Max) = U8Mod + ContextInserts(order, symbols, calls, cx)

\* every context of before is a context of after, with no count lowered
TablesGrow(before, after) ==
    \A cx \in DOMAIN before :
        /\ cx \in DOMAIN after
        /\ \A x \in DOMAIN before[cx].hm :
            /\ x \in DOMAIN after[cx].hm
            /\ after[cx].hm[x].count >= before[cx].hm[x].count

Observed(order, symbols, calls, cx, x) ==
    \E k \in 1..calls : \E i \in 1..cuts[k] :
        /\ WindowContext(order, Batch(symbols, k), i) = cx
        /\ Batch(symbols, k)[i] = x

Moved(b, t, x) == {y \in DOMAIN b.hm \ {x} : Rank(t, y) # Rank(b, y)}

\* C34: insert(x) changes the table by at most one swap: only x's count
\* changes (by +1, or x is appended with count 1 at the last rank), at most one
\* other entry changes rank and it takes the place x started from while x takes
\* its place, x's rank never increases, every other entry keeps rank and count,
\* and insert returns the rank x holds afterwards.
InsertIsOneSwap ==
    lastInsert.done =>
        LET b == lastInsert.before
            x == lastInsert.val
            start == IF IsSome(Rank(b, x)) THEN Unwrap(Rank(b, x)) ELSE Members(b)
        IN  /\ DOMAIN table.hm = DOMAIN b.hm \cup {x}
            /\ Count(table, x) = IF IsSome(Count(b, x))
                                 THEN Some(Unwrap(Count(b, x)) + 1) ELSE Some(1)
            /\ \A y \in DOMAIN b.hm \ {x} : Count(table, y) = Count(b, y)
            /\ Cardinality(Moved(b, table, x)) <= 1
            /\ \A y \in Moved(b, table, x) :
                /\ Rank(table, y) = Some(start)
                /\ Rank(b, y) = Rank(table, x)
            /\ Unwrap(Rank(table, x)) <= start
            /\ (Moved(b, table, x) = {} => Rank(table, x) = Some(start))
            /\ lastInsert.r = Unwrap(Rank(table, x))
            /\ Members(table) = Cardinality(DOMAIN table.hm)

\* C34 witness: the last insert raised a symbol that was two or more ranks
\* below the top over one entry, which took the symbol's old rank, while a
\* third entry between them kept its rank.
InsertIsOneSwapWitness ==
    /\ lastInsert.done
    /\ IsSome(Rank(lastInsert.before, lastInsert.val))
    /\ Moved(lastInsert.before, table, lastInsert.val) # {}
    /\ Unwrap(Rank(lastInsert.before, lastInsert.val)) - lastInsert.r >= 2

\* the ranks above x's old rank whose entry, in the table b before the insert
\* of an existing x, counts strictly less than x's new count
LowerRanks(b, x) ==
    {i \in 0..(Unwrap(Rank(b, x)) - 1) : NodeAt(b, i).count < Unwrap(Count(b, x)) + 1}

\* C35 as stated: when insert(x) increments an existing symbol, x is exchanged
\* with the first strictly lower entry met scanning from x's old position back
\* toward rank 0 (the nearest one), and stays in place if there is none.
SwapsWithNearestLower ==
    (lastInsert.done /\ IsSome(Rank(lastInsert.before, lastInsert.val)))
        => LET b == lastInsert.before
               x == lastInsert.val
               lower == LowerRanks(b, x)
           IN  lastInsert.r = IF lower = {} THEN Unwrap(Rank(b, x))
                              ELSE CHOOSE i \in lower : \A j \in lower : i >= j

\* C35 amended: when insert(x) increments an existing symbol, the scan runs
\* from rank 0 toward x's old position and x is exchanged with the first
\* strictly lower entry met, the one of highest rank (farthest from x's old
\* position); x stays in place if there is none.
SwapsWithTopmostLower ==
    (lastInsert.done /\ IsSome(Rank(lastInsert.before, lastInsert.val)))
        => LET b == lastInsert.before
               x == lastInsert.val
               lower == LowerRanks(b, x)
               target == IF lower = {} THEN Unwrap(Rank(b, x))
                         ELSE CHOOSE i \in lower : \A j \in lower : i <= j
           IN  /\ lastInsert.r = target
               /\ Rank(table, x) = Some(target)
               /\ Position(table, Unwrap(Rank(b, x))) = Position(b, target)

\* C35 witness: the incremented symbol had two strictly lower entries above
\* it and was exchanged with the upper one.
SwapsWithTopmostWitness ==
    /\ lastInsert.done
    /\ IsSome(Rank(lastInsert.before, lastInsert.val))
    /\ Cardinality(LowerRanks(lastInsert.before, lastInsert.val)) >= 2
    /\ lastInsert.r + 2 <= Unwrap(Rank(lastInsert.before, lastInsert.val))
    /\ Rank(table, lastInsert.val) = Some(lastInsert.r)

\* C36: for any finite source Stream::consume terminates: every non-empty
\* chunk is marked consumed in full after it is processed (whenever the loop is
\* back at fill_buf the reader stands behind all the bytes handed out), so the
\* run ends: it returns, after finish, or it ends in an error or a panic.
ConsumeTerminates ==
    /\ [](pc = "fill_buf" => reader.pos = consumed)
    /\ [](pc = "returned" => (reader.pos = Len(reader.source) /\ Calls("finish") # {}))
    /\ <>(~Running)

\* C36 witness: a source of three bytes was read in three chunks, each was
\* consumed, finish ran and consume returned.
ConsumeTerminatesWitness ==
    /\ pc = "returned"
    /\ driver = "core/stream.rs"
    /\ Len(reader.source) = 3
    /\ Cardinality(Calls("consume")) = 3
    /\ Cardinality(Calls("finish")) = 1
    /\ reader.pos = 3

\* the inputs on which the classic format is unambiguous for threshold t: no
\* run exceeds t + 255, and the count byte of a run of x that reaches t is not x
ClassicDomain(s, t) ==
    \A k \in DOMAIN RunsOf(s) :
        LET run == RunsOf(s)[k]
        IN  /\ run.len <= t + U8Max
            /\ run.len >= t => run.len - t # run.sym

\* C37: for every threshold t > 1 and every input in which each run is at most
\* t + 255 long and the count byte of a run that reaches t differs from the
\* run's symbol, the encoder does not fail and the decoder, given the complete
\* output of the encoder, reproduces the input exactly.
ClassicRestrictedRoundTrip ==
    (phase \in {"done", "panicked"} /\ ClassicDomain(original, enc.max_threshold))
        => (phase = "done" /\ decSink = original)

\* C37 witness: a finished round trip of an input of the domain with a run
\* above the threshold, whose encoding differs from the input.
ClassicRestrictedWitness ==
    /\ phase = "done"
    /\ ClassicDomain(original, enc.max_threshold)
    /\ \E k \in DOMAIN RunsOf(original) : RunsOf(original)[k].len > enc.max_threshold
    /\ Len(RunsOf(original)) >= 2
    /\ encSink # original
    /\ decSink = original

\* C38: for every threshold up to 127 and every input whose length is a
\* multiple of 8, the telemetry decoder (one process call, then finish) applied
\* to the output of the encoder (one process call, then finish) reproduces the
\* input, and after each group both codecs hold the group's last true symbol
\* as last_byte.
TelemetryRestrictedRoundTrip ==
    (/\ phase \in {"done", "panicked"}
     /\ Len(cuts) = 1
     /\ Len(feeds) <= 1
     /\ enc.max_threshold < TelemetryMid
     /\ Len(original) % TelemetryGroup = 0)
        => /\ phase = "done"
           /\ decSink = original
           /\ \A g \in 1..(Len(original) \div TelemetryGroup) :
                LET e == TelemetryEncProcess(TelemetryEncNew(enc.max_threshold),
                                             SubSeq(original, 1, g * TelemetryGroup), <<>>)
                    d == TelemetryDecProcess(TelemetryDecNew,
                                             SubSeq(encSink, 1, g * TelemetryDecGroup), <<>>)
                IN  /\ ~e.panic /\ ~d.panic
                    /\ e.sink = SubSeq(encSink, 1, g * TelemetryDecGroup)
                    /\ e.p.last_byte = original[g * TelemetryGroup]
                    /\ d.p.last_byte = e.p.last_byte

\* C38 witness: a finished round trip of two groups with a threshold below 128
\* in which the first group held raw and delta symbols.
TelemetryRestrictedWitness ==
    /\ phase = "done"
    /\ Len(cuts) = 1
    /\ Len(feeds) = 1
    /\ enc.max_threshold < TelemetryMid
    /\ Len(original) = 2 * TelemetryGroup
    /\ encSink[TelemetryDecGroup] \notin {0, U8Max}
    /\ decSink = original

\* C39: for every threshold with_threshold accepts (0..128) and every input
\* the encoder's delta byte 128 + diff or 128 - diff is computed without 8-bit
\* overflow, and the byte emitted for a step differs from the byte a step of
\* the same magnitude in the opposite direction would give.
DeltaByteFits ==
    /\ ~(phase = "panicked" /\ feeds = <<>>)
    /\ (phase # "panicked" /\ cuts # <<>>)
        => \A i \in 1..(TelemetryGroup * (cuts[1] \div TelemetryGroup)) :
            LET prev == IF i = 1 THEN 0 ELSE original[i - 1]
                diff == Max(prev, original[i]) - Min(prev, original[i])
                out == encSink[i + ((i - 1) \div TelemetryGroup)]
                opposite == IF original[i] > prev THEN TelemetryMid - diff
                            ELSE (TelemetryMid + diff) % U8Mod
            IN  (diff <= enc.max_threshold /\ diff > 0) => out # opposite

\* the input lengths the count bytes of the emitted pairs stand for
RECURSIVE LossyPairLengths(_)
LossyPairLengths(out) ==
    IF Len(out) < 2 THEN 0
    ELSE out[2] + 1 + LossyPairLengths(SubSeq(out, 3, Len(out)))

\* C40: every pair (symbol, c) emitted by the lossy encoder has c + 1 equal to
\* the merged run length repetition + loss_count, never that length reduced
\* modulo 256, so the pairs of the complete output account for every input
\* byte and the decoded output is as long as the input.
LossyCountNeverTruncated ==
    /\ phase \in {"decoding", "done"} => LossyPairLengths(encSink) = Len(original)
    /\ phase = "done" => Len(decSink) = Len(original)
====
